---- MODULE Spec2Model ----
(***************************************************************************)
(* Declaration resolution, route enumeration and route cache of the Zig    *)
(* documentation site generator (docParser / pathGenerator / pathUtils).   *)
(*                                                                         *)
(* Strings are sequences of one-character strings, so that split, join,    *)
(* startsWith and substring are computed character by character.           *)
(***************************************************************************)
EXTENDS Integers, Sequences, FiniteSets, TLC

VARIABLES
    store,          \* content of the WASM declaration store (read-only)
    call,           \* one call of a docParser function, stepped loop by loop
    wasmInstance,   \* docParser: TRUE once initWasm has instantiated the store
    moduleList,     \* docParser: the module list built by updateModuleList
    main,           \* generateDeclarationPaths: position, flag and result
    tasks,          \* the async tasks started by generateDeclarationPaths
    paths,          \* generateDeclarationPaths: the output sequence
    processedFqns,  \* generateDeclarationPaths: the visited-FQN set
    cacheFile,      \* content of PATHS_CACHE_FILE on disk
    storeOps,       \* number of docParser calls made by the running enumeration
    rt              \* one run of the cache serialisation pipeline

vars == <<store, call, wasmInstance, moduleList, main, tasks, paths,
          processedFqns, cacheFile, storeOps, rt>>

----------------------------------------------------------------------------
(* Declaration categories.                                                 *)

CAT_namespace == 0
CAT_container == 1
CAT_global_variable == 2
CAT_function == 3
CAT_primitive == 4
CAT_error_set == 5
CAT_global_const == 6
CAT_alias == 7
CAT_type == 8
CAT_type_type == 9
CAT_type_function == 10

\* 0xffffffff, the "not found" handle, read as a 32-bit two's complement value
NotFound == -1

----------------------------------------------------------------------------
(* Bounds.                                                                 *)

ResolveHandles == 3     \* handles of the stores the resolver is run on
MaxMembers == 2         \* longest member list handed to processDeclarations
EnumDecls == 2          \* declarations below the two module roots of an enumerated store
MaxAliases == 1         \* alias declarations of an enumerated store
MaxCalls == 2           \* calls of generateDeclarationPaths made one after the other
MaxRoutes == 2          \* longest route sequence put through the cache pipeline
MaxNodes == 1           \* longest error-node list of those routes
MaxModules == 3         \* longest module table of a store
EndlessListed == 1      \* longest module table of a store whose names never end
MaxCallers == 2         \* concurrent callers of initWasm

----------------------------------------------------------------------------
(* Strings.                                                                *)

Dot == "."
EmptyString == <<>>

\* the name given to handle h in the generated stores
NameChars == <<"r", "s", "t", "u", "v", "w", "x", "y">>
NameOf(h) == <<NameChars[h + 1]>>

----------------------------------------------------------------------------
(* The exports of the WASM store, read from the variable store.            *)

categorize_decl(declIndex) == store.cat[declIndex]
get_aliasee(declIndex) == store.aliasee[declIndex]
decl_fqn(declIndex) == store.fqn[declIndex]
decl_name(declIndex) == store.name[declIndex]
\* store.members lists the members of a handle and store.private holds the
\* handles that are private; include_private is the flag of the export
namespace_members(declIndex, include_private) ==
    LET Listed(h) == include_private \/ h \notin store.private
    IN  SelectSeq(store.members[declIndex], Listed)

\* lookup by FQN: the first handle carrying that FQN, unless the lookup misses
find_decl(fqn) ==
    LET hits == {h \in DOMAIN store.fqn : store.fqn[h] = fqn /\ h \notin store.miss}
    IN  IF hits = {} THEN NotFound
        ELSE CHOOSE h \in hits : \A g \in hits : h <= g

InvalidIndexName == <<"[", "I", "]">>    \* "[Invalid Index]"

findDecl(fqn) == find_decl(fqn)

fullyQualifiedName(declIndex) ==
    IF declIndex = NotFound THEN InvalidIndexName ELSE decl_fqn(declIndex)

declIndexName(declIndex) ==
    IF declIndex = NotFound THEN InvalidIndexName ELSE decl_name(declIndex)

----------------------------------------------------------------------------
(* The alias loop of getDeclData and processDeclarations.  The loop state  *)
(* is l = [targetIndex, category, brk]; brk records that break was taken.  *)

aliasLoopInit(declIndex) ==
    [targetIndex |-> declIndex, category |-> categorize_decl(declIndex),
     brk |-> FALSE]

aliasLoopCond(l) == l.category = CAT_alias /\ ~l.brk

\* a loop body that moves on without categorising the new handle
aliasLoopBody_staleCategory(l) ==
    LET nextIndex == get_aliasee(l.targetIndex)
    IN  IF nextIndex = NotFound \/ nextIndex = l.targetIndex
        THEN [l EXCEPT !.brk = TRUE]
        ELSE [targetIndex |-> nextIndex, category |-> l.category, brk |-> FALSE]

\* a loop body that follows one link only
aliasLoopBody_oneHop(l) ==
    LET nextIndex == get_aliasee(l.targetIndex)
    IN  IF nextIndex = NotFound \/ nextIndex = l.targetIndex
        THEN [l EXCEPT !.brk = TRUE]
        ELSE [targetIndex |-> nextIndex,
              category |-> categorize_decl(nextIndex),
              brk |-> TRUE]

aliasLoopBody(l) ==
    LET nextIndex == get_aliasee(l.targetIndex)
    IN  IF nextIndex = NotFound \/ nextIndex = l.targetIndex
        THEN [l EXCEPT !.brk = TRUE]
        ELSE [targetIndex |-> nextIndex,
              category |-> categorize_decl(nextIndex),
              brk |-> FALSE]

\* the loop run to its end; hang = TRUE when a loop state repeats, that is
\* when the loop never exits
RECURSIVE aliasLoopRun(_, _)
aliasLoopRun(l, seen) ==
    IF ~aliasLoopCond(l) THEN [hang |-> FALSE, l |-> l]
    ELSE IF l \in seen THEN [hang |-> TRUE, l |-> l]
    ELSE aliasLoopRun(aliasLoopBody(l), seen \cup {l})

----------------------------------------------------------------------------
(* Further exports used when a full record is assembled.  A handle in      *)
(* store.fault is one for which the store's full-documentation export      *)
(* throws (a trap inside the WASM module), a handle in store.faultShort    *)
(* one for which the short-documentation export does.                      *)

decl_docs_html_throws(declIndex) == declIndex \in store.fault
decl_docs_html_short_throws(declIndex) == declIndex \in store.faultShort
decl_docs_html(declIndex) == store.docs[declIndex]
decl_params(declIndex) == store.params[declIndex]
decl_fields(declIndex) == store.fields[declIndex]
fn_error_set(declIndex) == store.fnErrorSet[declIndex]
fn_error_set_decl(declIndex) == store.fnErrorSetDecl[declIndex]
error_set_node_list(baseDecl) == store.errorNodes[baseDecl]
decl_error_set(declIndex) == store.errorNodes[declIndex]
decl_fn_proto_html(declIndex) == store.proto[declIndex]
decl_doctest_html(declIndex) == store.doctest[declIndex]

\* the bigint 0n, as its decimal digits
BigZero == <<0>>

\* identifiers handed to getDeclData: a string (an FQN) or a number (a handle)
StringId(fqn) == [type |-> "string", value |-> fqn]
NumberId(declIndex) == [type |-> "number", value |-> declIndex]

\* lines 357-374: the handle the identifier names, NotFound when the call throws
getDeclData_originalIndex(identifier) ==
    IF identifier.type = "string" THEN findDecl(identifier.value)
    ELSE identifier.value

\* the four properties of the record that hold arrays
ArrayFields == {"params", "fields", "members", "errorSetNodes"}

\* the record before the switch: no category-specific property is defined.
\* An optional scalar is a sequence that is empty when the property is
\* absent; defined is the set of array properties that hold an array, and an
\* array property outside defined is undefined (its sequence is empty)
NoCategoryFields ==
    [params |-> <<>>, fields |-> <<>>, members |-> <<>>,
     errorSetNodes |-> <<>>, errorSetBaseDecl |-> <<>>,
     protoHtml |-> <<>>, doctestHtml |-> <<>>, defined |-> {}]

\* a switch that takes CAT_type_type for a container
getDeclData_cases_typeTypeAsContainer(category, targetIndex) ==
    IF category \in {CAT_function, CAT_type_function}
    THEN LET errorSetNode == fn_error_set(targetIndex)
             baseDecl == fn_error_set_decl(targetIndex)
         IN  [NoCategoryFields EXCEPT
                !.protoHtml = <<decl_fn_proto_html(targetIndex)>>,
                !.params = decl_params(targetIndex),
                !.doctestHtml = <<decl_doctest_html(targetIndex)>>,
                !.errorSetBaseDecl =
                    IF errorSetNode # BigZero THEN <<baseDecl>> ELSE <<>>,
                !.errorSetNodes =
                    IF errorSetNode # BigZero /\ baseDecl # NotFound
                    THEN error_set_node_list(baseDecl) ELSE <<>>,
                !.defined = {"params", "errorSetNodes"}]
    ELSE IF category \in {CAT_container, CAT_type, CAT_namespace, CAT_type_type}
    THEN [NoCategoryFields EXCEPT
            !.fields = decl_fields(targetIndex),
            !.members = namespace_members(targetIndex, FALSE),
            !.doctestHtml = <<decl_doctest_html(targetIndex)>>,
            !.defined = {"fields", "members"}]
    ELSE IF category = CAT_error_set
    THEN [NoCategoryFields EXCEPT !.errorSetNodes = decl_error_set(targetIndex),
                                  !.defined = {"errorSetNodes"}]
    ELSE NoCategoryFields

\* lines 417-487: the switch over the category; it has no default case
getDeclData_cases(category, targetIndex) ==
    IF category \in {CAT_function, CAT_type_function}
    THEN LET errorSetNode == fn_error_set(targetIndex)
             baseDecl == fn_error_set_decl(targetIndex)
         IN  [NoCategoryFields EXCEPT
                !.protoHtml = <<decl_fn_proto_html(targetIndex)>>,
                !.params = decl_params(targetIndex),
                !.doctestHtml = <<decl_doctest_html(targetIndex)>>,
                !.errorSetBaseDecl =
                    IF errorSetNode # BigZero THEN <<baseDecl>> ELSE <<>>,
                !.errorSetNodes =
                    IF errorSetNode # BigZero /\ baseDecl # NotFound
                    THEN error_set_node_list(baseDecl) ELSE <<>>,
                !.defined = {"params", "errorSetNodes"}]
    ELSE IF category \in {CAT_container, CAT_type, CAT_namespace}
    THEN [NoCategoryFields EXCEPT
            !.fields = decl_fields(targetIndex),
            !.members = namespace_members(targetIndex, FALSE),
            !.doctestHtml = <<decl_doctest_html(targetIndex)>>,
            !.defined = {"fields", "members"}]
    ELSE IF category = CAT_error_set
    THEN [NoCategoryFields EXCEPT !.errorSetNodes = decl_error_set(targetIndex),
                                  !.defined = {"errorSetNodes"}]
    ELSE NoCategoryFields

\* lines 489-493: data.x = data.x ?? [] for the four array properties
getDeclData_defaults(data) == [data EXCEPT !.defined = @ \cup ArrayFields]

\* lines 417-493: the category-specific fields, with the array defaults
getDeclData_switch(category, targetIndex) ==
    getDeclData_defaults(getDeclData_cases(category, targetIndex))

\* the console.warn calls of the alias loop of getDeclData (lines 383-388)
WarnAlias == "alias not resolved"
\* the console.warn call of the switch (lines 449-453)
WarnErrorSetDecl == "fn_error_set_decl returned invalid index"
\* the console.warn call of the default case of the module page
WarnUnknownCategory == "unknown category"

\* modules/[module].astro lines 63-104: the list of the module page an entry
\* of processDeclarations is put in, and the diagnostic of the switch
moduleCategoryDispatch(category) ==
    CASE category = CAT_namespace -> [list |-> "namespaces", warn |-> <<>>]
      [] category \in {CAT_container, CAT_type, CAT_type_type, CAT_type_function} ->
            [list |-> "types", warn |-> <<>>]
      [] category \in {CAT_global_variable, CAT_global_const} ->
            [list |-> "vars", warn |-> <<>>]
      [] category = CAT_function -> [list |-> "fns", warn |-> <<>>]
      [] category = CAT_error_set -> [list |-> "errSets", warn |-> <<>>]
      [] category = CAT_primitive -> [list |-> "vals", warn |-> <<>>]
      [] category = CAT_alias -> [list |-> "none", warn |-> <<WarnAlias>>]
      [] OTHER -> [list |-> "none", warn |-> <<WarnUnknownCategory>>]

\* lines 380-487: the diagnostics of one call of getDeclData that ended its
\* alias loop in state l
getDeclData_warnings(l) ==
    (IF l.brk THEN <<WarnAlias>> ELSE <<>>)
        \o (IF /\ l.category \in {CAT_function, CAT_type_function}
               /\ fn_error_set(l.targetIndex) # BigZero
               /\ fn_error_set_decl(l.targetIndex) = NotFound
            THEN <<WarnErrorSetDecl>> ELSE <<>>)

\* a record whose fqn is taken from the resolved handle
getDeclData_base_targetFqn(originalIndex, isAlias, l) ==
    [index |-> l.targetIndex,
     originalIndex |-> originalIndex,
     name |-> declIndexName(originalIndex),
     fqn |-> fullyQualifiedName(l.targetIndex),
     targetFqn |-> fullyQualifiedName(l.targetIndex),
     category |-> l.category,
     docs |-> decl_docs_html(l.targetIndex),
     isAlias |-> isAlias]

\* lines 395-415: the base fields, built once the alias loop has ended
getDeclData_base(originalIndex, isAlias, l) ==
    [index |-> l.targetIndex,
     originalIndex |-> originalIndex,
     name |-> declIndexName(originalIndex),
     fqn |-> fullyQualifiedName(originalIndex),
     targetFqn |-> fullyQualifiedName(l.targetIndex),
     category |-> l.category,
     docs |-> decl_docs_html(l.targetIndex),
     isAlias |-> isAlias]

\* lines 395-495: the record getDeclData returns
getDeclData_record(originalIndex, isAlias, l) ==
    getDeclData_base(originalIndex, isAlias, l)
        @@ getDeclData_switch(l.category, l.targetIndex)

\* getDeclData as one synchronous run: status is "ok" (data is the record),
\* "throw" (an error is raised) or "hang" (the alias loop never exits)
getDeclData(identifier) ==
    LET originalIndex == getDeclData_originalIndex(identifier)
    IN  IF originalIndex = NotFound THEN [status |-> "throw"]
        ELSE LET run == aliasLoopRun(aliasLoopInit(originalIndex), {})
                 isAlias == categorize_decl(originalIndex) = CAT_alias
             IN  IF run.hang THEN [status |-> "hang"]
                 ELSE IF decl_docs_html_throws(run.l.targetIndex)
                 THEN [status |-> "throw"]
                 ELSE [status |-> "ok",
                       data |-> getDeclData_record(originalIndex, isAlias, run.l)]

\* an entry that keeps the category of the member it was asked about
processDeclarations_entry_originalCategory(originalIndex, l) ==
    [originalIndex |-> originalIndex,
     targetIndex |-> l.targetIndex,
     name |-> declIndexName(originalIndex),
     fqn |-> fullyQualifiedName(originalIndex),
     targetFqn |-> fullyQualifiedName(l.targetIndex),
     category |-> categorize_decl(originalIndex)]

\* lines 326-349: the entry processDeclarations pushes for one member
processDeclarations_entry(originalIndex, l) ==
    [originalIndex |-> originalIndex,
     targetIndex |-> l.targetIndex,
     name |-> declIndexName(originalIndex),
     fqn |-> fullyQualifiedName(originalIndex),
     targetFqn |-> fullyQualifiedName(l.targetIndex),
     category |-> l.category]

\* processDeclarations as one synchronous run over the member list, with the
\* status of getDeclData
RECURSIVE processDeclarations(_)
processDeclarations(memberIndices) ==
    IF memberIndices = <<>> THEN [status |-> "ok", decls |-> <<>>]
    ELSE LET memberIndex == Head(memberIndices)
             run == aliasLoopRun(aliasLoopInit(memberIndex), {})
             rest == processDeclarations(Tail(memberIndices))
         IN  IF run.hang THEN [status |-> "hang"]
             ELSE IF run.l.targetIndex = NotFound THEN rest
             ELSE IF decl_docs_html_short_throws(run.l.targetIndex)
             THEN [status |-> "throw"]
             ELSE IF rest.status # "ok" THEN rest
             ELSE [status |-> "ok",
                   decls |-> <<processDeclarations_entry(memberIndex, run.l)>>
                             \o rest.decls]

----------------------------------------------------------------------------
(* src/lib/docParser.ts, the earlier revision of the same two functions.   *)
(* Its getDeclData loop state is l = [declIndex, targetIndex, category,    *)
(* targetFqn, brk]; its processDeclarations loop state is                  *)
(* l = [memberIndex, category, brk].                                       *)

docParser_getDeclData_loopInit(declIndex) ==
    [declIndex |-> declIndex, targetIndex |-> declIndex,
     category |-> categorize_decl(declIndex), targetFqn |-> EmptyString,
     brk |-> FALSE]

docParser_getDeclData_loopBody(originalIndex, l) ==
    LET nextIndex == get_aliasee(l.declIndex)
    IN  IF nextIndex = NotFound \/ nextIndex = l.declIndex
        THEN [declIndex |-> originalIndex, targetIndex |-> originalIndex,
              category |-> categorize_decl(originalIndex),
              targetFqn |-> decl_fqn(originalIndex), brk |-> TRUE]
        ELSE [declIndex |-> nextIndex, targetIndex |-> nextIndex,
              category |-> categorize_decl(nextIndex),
              targetFqn |-> decl_fqn(nextIndex), brk |-> FALSE]

\* src/lib/docParser.ts lines 385-446: the switch over the category; the
\* record is returned as the switch leaves it
docParser_getDeclData_cases(category, targetIndex) ==
    IF category \in {CAT_function, CAT_type_function}
    THEN LET errorSetNode == fn_error_set(targetIndex)
             baseDecl == fn_error_set_decl(targetIndex)
         IN  [NoCategoryFields EXCEPT
                !.protoHtml = <<decl_fn_proto_html(targetIndex)>>,
                !.params = decl_params(targetIndex),
                !.doctestHtml = <<decl_doctest_html(targetIndex)>>,
                !.errorSetBaseDecl =
                    IF errorSetNode # BigZero THEN <<baseDecl>> ELSE <<>>,
                !.errorSetNodes =
                    IF errorSetNode # BigZero
                    THEN error_set_node_list(baseDecl) ELSE <<>>,
                !.defined = IF errorSetNode # BigZero
                            THEN {"params", "errorSetNodes"} ELSE {"params"}]
    ELSE IF category \in {CAT_container, CAT_type, CAT_namespace}
    THEN [NoCategoryFields EXCEPT
            !.fields = decl_fields(targetIndex),
            !.members = namespace_members(targetIndex, FALSE),
            !.doctestHtml = <<decl_doctest_html(targetIndex)>>,
            !.defined = {"fields", "members"}]
    ELSE IF category = CAT_error_set
    THEN [NoCategoryFields EXCEPT !.errorSetNodes = decl_error_set(targetIndex),
                                  !.defined = {"errorSetNodes"}]
    ELSE NoCategoryFields

\* src/lib/docParser.ts lines 366-449: the record getDeclData returns
docParser_getDeclData_record(originalIndex, isAlias, l) ==
    LET targetFqn == IF l.targetFqn = EmptyString
                     THEN decl_fqn(l.targetIndex) ELSE l.targetFqn
    IN  [index |-> l.targetIndex,
         originalIndex |-> originalIndex,
         name |-> decl_name(originalIndex),
         fqn |-> decl_fqn(originalIndex),
         targetFqn |-> targetFqn,
         category |-> l.category,
         docs |-> decl_docs_html(l.targetIndex),
         isAlias |-> isAlias]
            @@ docParser_getDeclData_cases(l.category, l.targetIndex)

\* src/lib/docParser.ts lines 348-356: the diagnostics of one call
docParser_getDeclData_warnings(l) == IF l.brk THEN <<WarnAlias>> ELSE <<>>

docParser_processDeclarations_loopInit(memberIndex) ==
    [memberIndex |-> memberIndex, category |-> categorize_decl(memberIndex),
     brk |-> FALSE]

docParser_processDeclarations_loopBody(originalIndex, l) ==
    LET memberIndex == get_aliasee(l.memberIndex)
    IN  IF memberIndex = NotFound \/ memberIndex = originalIndex
        THEN [memberIndex |-> memberIndex, category |-> l.category, brk |-> TRUE]
        ELSE [memberIndex |-> memberIndex,
              category |-> categorize_decl(memberIndex), brk |-> FALSE]

docParser_processDeclarations_entry(originalIndex, l) ==
    [originalIndex |-> originalIndex,
     targetIndex |-> l.memberIndex,
     name |-> decl_name(originalIndex),
     fqn |-> decl_fqn(originalIndex),
     targetFqn |-> decl_fqn(l.memberIndex),
     category |-> l.category]

----------------------------------------------------------------------------
(* Stores the resolver is run on: every handle is an alias of any handle   *)
(* (itself included) or of the not-found handle, or a plain declaration.   *)

ResolveH == 0 .. (ResolveHandles - 1)

PlainCategories == <<CAT_container, CAT_function, CAT_error_set, CAT_global_const>>
PlainCategoryOf(h) == PlainCategories[(h % Len(PlainCategories)) + 1]

DeclKinds(H) ==
    {[alias |-> FALSE, to |-> NotFound]}
        \cup {[alias |-> TRUE, to |-> t] : t \in H \cup {NotFound}}

MkResolveStore(kind) ==
    [cat |-> [h \in ResolveH |->
                IF kind[h].alias THEN CAT_alias ELSE PlainCategoryOf(h)],
     aliasee |-> [h \in ResolveH |-> kind[h].to],
     fqn |-> [h \in ResolveH |-> <<"a", Dot>> \o NameOf(h)],
     name |-> [h \in ResolveH |-> NameOf(h)],
     members |-> [h \in ResolveH |-> <<(h + 1) % ResolveHandles>>],
     docs |-> [h \in ResolveH |-> <<"d">> \o NameOf(h)],
     proto |-> [h \in ResolveH |-> <<"p">> \o NameOf(h)],
     doctest |-> [h \in ResolveH |-> <<"t">> \o NameOf(h)],
     params |-> [h \in ResolveH |-> <<0>>],
     fields |-> [h \in ResolveH |-> <<0, 1>>],
     fnErrorSet |-> [h \in ResolveH |-> IF h = 1 THEN <<7>> ELSE BigZero],
     fnErrorSetDecl |-> [h \in ResolveH |-> h],
     errorNodes |-> [h \in ResolveH |-> << <<1, 8>>, <<5>> >>],
     miss |-> {},
     fault |-> {},
     faultShort |-> {},
     private |-> {},
     modules |-> <<>>,
     beyond |-> [name |-> EmptyString, root |-> NotFound]]

ResolveStores == {MkResolveStore(kind) : kind \in [ResolveH -> DeclKinds(ResolveH)]}

----------------------------------------------------------------------------
(* One call of getDeclData or processDeclarations, one loop iteration per  *)
(* step.  call.fn names the function; call.rest holds the members still to *)
(* process (processDeclarations), call.out the records produced; call.pass *)
(* is 2 when the call was made on the handles a first call returned, which *)
(* call.first then holds; call.asked holds the handles first asked for.    *)

FnGetDeclData == "getDeclData"
FnProcessDeclarations == "processDeclarations"
FnDocParserGetDeclData == "docParser.getDeclData"
FnDocParserProcessDeclarations == "docParser.processDeclarations"
ResolverFns == {FnGetDeclData, FnProcessDeclarations,
                FnDocParserGetDeclData, FnDocParserProcessDeclarations}

IdleCall ==
    [fn |-> "none", pc |-> "idle", originalIndex |-> NotFound, l |-> <<>>,
     rest |-> <<>>, out |-> <<>>, pass |-> 0, asked |-> <<>>, first |-> <<>>]

LoopInitOf(fn, declIndex) ==
    CASE fn = FnGetDeclData -> aliasLoopInit(declIndex)
      [] fn = FnProcessDeclarations -> aliasLoopInit(declIndex)
      [] fn = FnDocParserGetDeclData -> docParser_getDeclData_loopInit(declIndex)
      [] fn = FnDocParserProcessDeclarations ->
            docParser_processDeclarations_loopInit(declIndex)

LoopBodyOf(fn, originalIndex, l) ==
    CASE fn = FnGetDeclData -> aliasLoopBody(l)
      [] fn = FnProcessDeclarations -> aliasLoopBody(l)
      [] fn = FnDocParserGetDeclData -> docParser_getDeclData_loopBody(originalIndex, l)
      [] fn = FnDocParserProcessDeclarations ->
            docParser_processDeclarations_loopBody(originalIndex, l)

\* the handle the loop state names as resolved
LoopTargetOf(fn, l) ==
    IF fn = FnDocParserProcessDeclarations THEN l.memberIndex ELSE l.targetIndex

\* what the function appends to its output when the loop of one handle ends
LoopOutputOf(fn, originalIndex, l) ==
    LET isAlias == categorize_decl(originalIndex) = CAT_alias
    IN  CASE fn = FnGetDeclData -> <<getDeclData_record(originalIndex, isAlias, l)>>
          [] fn = FnDocParserGetDeclData ->
                <<docParser_getDeclData_record(originalIndex, isAlias, l)>>
          [] fn = FnProcessDeclarations ->
                IF l.targetIndex = NotFound THEN <<>>
                ELSE <<processDeclarations_entry(originalIndex, l)>>
          [] fn = FnDocParserProcessDeclarations ->
                IF l.memberIndex = NotFound THEN <<>>
                ELSE <<docParser_processDeclarations_entry(originalIndex, l)>>

MemberLists == UNION {[1 .. n -> ResolveH] : n \in 1 .. MaxMembers}

ResolverUnchanged ==
    UNCHANGED <<store, wasmInstance, moduleList, main, tasks, paths,
                processedFqns, cacheFile, storeOps, rt>>

\* getDeclData(declIndex) is called with a handle
CallGetDeclData(fn, declIndex) ==
    /\ call.pc = "idle"
    /\ fn \in {FnGetDeclData, FnDocParserGetDeclData}
    /\ call' = [IdleCall EXCEPT !.fn = fn, !.pc = "loop",
                                !.originalIndex = declIndex,
                                !.l = LoopInitOf(fn, declIndex), !.pass = 1,
                                !.asked = <<declIndex>>]
    /\ ResolverUnchanged

\* processDeclarations(memberIndices) is called with a non-empty list
CallProcessDeclarations(fn, memberIndices) ==
    /\ call.pc = "idle"
    /\ fn \in {FnProcessDeclarations, FnDocParserProcessDeclarations}
    /\ call' = [IdleCall EXCEPT !.fn = fn, !.pc = "loop",
                                !.originalIndex = Head(memberIndices),
                                !.l = LoopInitOf(fn, Head(memberIndices)),
                                !.rest = Tail(memberIndices), !.pass = 1,
                                !.asked = memberIndices]
    /\ ResolverUnchanged

\* one iteration of the while loop
AliasLoopIter ==
    /\ call.pc = "loop"
    /\ aliasLoopCond(call.l)
    /\ call' = [call EXCEPT !.l = LoopBodyOf(call.fn, call.originalIndex, call.l)]
    /\ ResolverUnchanged

\* the loop has ended: the record is produced, and processDeclarations
\* goes on to its next member
AliasLoopExit ==
    /\ call.pc = "loop"
    /\ ~aliasLoopCond(call.l)
    /\ LET out == call.out \o LoopOutputOf(call.fn, call.originalIndex, call.l)
       IN  IF call.rest = <<>>
           THEN call' = [call EXCEPT !.pc = "done", !.out = out]
           ELSE call' = [call EXCEPT !.out = out,
                                     !.originalIndex = Head(call.rest),
                                     !.l = LoopInitOf(call.fn, Head(call.rest)),
                                     !.rest = Tail(call.rest)]
    /\ ResolverUnchanged

\* the function is called again on the handles its first call resolved to
CallOnResult ==
    /\ call.pc = "done"
    /\ call.pass = 1
    /\ call.out # <<>>
    /\ LET resolved == [i \in 1 .. Len(call.out) |->
                          IF call.fn \in {FnGetDeclData, FnDocParserGetDeclData}
                          THEN call.out[i].index ELSE call.out[i].targetIndex]
       IN  call' = [IdleCall EXCEPT !.fn = call.fn, !.pc = "loop",
                                    !.originalIndex = Head(resolved),
                                    !.l = LoopInitOf(call.fn, Head(resolved)),
                                    !.rest = Tail(resolved), !.pass = 2,
                                    !.asked = call.asked, !.first = resolved]
    /\ ResolverUnchanged

\* main.prev is what the call before this one did: whether it enumerated,
\* whether its write succeeded, and what it returned
IdleMain == [pc |-> "idle", forceRegenerate |-> FALSE, result |-> [t |-> "undefined"],
             cacheHit |-> FALSE, written |-> FALSE, hung |-> FALSE, calls |-> 0,
             atCall |-> [kind |-> "absent"],
             prev |-> [fresh |-> FALSE, written |-> FALSE,
                       result |-> [t |-> "undefined"]]]
IdleRt == [pc |-> "idle"]

InitResolve ==
    /\ store \in ResolveStores
    /\ call = IdleCall
    /\ wasmInstance = TRUE
    /\ moduleList = <<>>
    /\ main = IdleMain
    /\ tasks = <<>>
    /\ paths = <<>>
    /\ processedFqns = {}
    /\ cacheFile = [kind |-> "absent"]
    /\ storeOps = 0
    /\ rt = IdleRt

NextResolve ==
    \/ \E fn \in ResolverFns, declIndex \in ResolveH : CallGetDeclData(fn, declIndex)
    \/ \E fn \in ResolverFns, memberIndices \in MemberLists :
            CallProcessDeclarations(fn, memberIndices)
    \/ AliasLoopIter
    \/ AliasLoopExit
    \/ CallOnResult

SpecResolve == InitResolve /\ [][NextResolve]_vars

\* the loop is a synchronous piece of code: it keeps running until it exits
FairSpecResolve == SpecResolve /\ WF_vars(AliasLoopIter) /\ WF_vars(AliasLoopExit)

----------------------------------------------------------------------------
(* JavaScript values and JSON documents.  A value is a record tagged by    *)
(* its type t; a bigint is held as its decimal digits, most significant    *)
(* first; an object is the ordered sequence of its own properties.  A JSON *)
(* document is the parsed form of a JSON text, tagged by j.                *)

JsNull == [t |-> "null"]
JsUndefined == [t |-> "undefined"]
JsNumber(n) == [t |-> "number", num |-> n]
JsBoolean(b) == [t |-> "boolean", bool |-> b]
JsString(str) == [t |-> "string", str |-> str]
JsBigInt(digits) == [t |-> "bigint", big |-> digits]
JsArray(items) == [t |-> "array", items |-> items]
JsObject(props) == [t |-> "object", props |-> props]
Prop(key, val) == [key |-> key, val |-> val]

DigitChars == <<"0", "1", "2", "3", "4", "5", "6", "7", "8", "9">>

\* "__bigint__:"
BigIntPrefix == <<"_", "_", "b", "i", "g", "i", "n", "t", "_", "_", ":">>

\* data.toString() of a bigint: its decimal digits as characters
BigIntToString(digits) == [i \in 1 .. Len(digits) |-> DigitChars[digits[i] + 1]]

startsWith(str, prefix) ==
    /\ Len(str) >= Len(prefix)
    /\ SubSeq(str, 1, Len(prefix)) = prefix

substring(str, from) == SubSeq(str, from + 1, Len(str))

IsDigitChar(c) == \E d \in 1 .. 10 : DigitChars[d] = c
DigitOf(c) == (CHOOSE d \in 1 .. 10 : DigitChars[d] = c) - 1

RECURSIVE StripLeadingZeros(_)
StripLeadingZeros(digits) ==
    IF Len(digits) > 1 /\ Head(digits) = 0
    THEN StripLeadingZeros(Tail(digits)) ELSE digits

\* BigInt(str) on strings of letters, digits and punctuation: the empty string
\* is 0n, a string of decimal digits is its value, anything else a SyntaxError
BigIntThrows(str) == \E i \in 1 .. Len(str) : ~IsDigitChar(str[i])
BigIntOfString(str) ==
    IF str = <<>> THEN <<0>>
    ELSE StripLeadingZeros([i \in 1 .. Len(str) |-> DigitOf(str[i])])

RECURSIVE makeSerializable(_)
makeSerializable(data) ==
    IF data.t \in {"null", "undefined"} THEN data
    ELSE IF data.t = "bigint"
    THEN JsString(BigIntPrefix \o BigIntToString(data.big))
    ELSE IF data.t = "array"
    THEN JsArray([i \in 1 .. Len(data.items) |-> makeSerializable(data.items[i])])
    ELSE IF data.t = "object"
    THEN JsObject([i \in 1 .. Len(data.props) |->
                    Prop(data.props[i].key, makeSerializable(data.props[i].val))])
    ELSE data

\* TRUE when restoreBigInts(data) raises the SyntaxError of BigInt()
RECURSIVE restoreBigInts_throws(_)
restoreBigInts_throws(data) ==
    IF data.t = "string"
    THEN startsWith(data.str, BigIntPrefix) /\ BigIntThrows(substring(data.str, 11))
    ELSE IF data.t = "array"
    THEN \E i \in 1 .. Len(data.items) : restoreBigInts_throws(data.items[i])
    ELSE IF data.t = "object"
    THEN \E i \in 1 .. Len(data.props) : restoreBigInts_throws(data.props[i].val)
    ELSE FALSE

RECURSIVE restoreBigInts(_)
restoreBigInts(data) ==
    IF data.t \in {"null", "undefined"} THEN data
    ELSE IF data.t = "string" /\ startsWith(data.str, BigIntPrefix)
    THEN JsBigInt(BigIntOfString(substring(data.str, 11)))
    ELSE IF data.t = "array"
    THEN JsArray([i \in 1 .. Len(data.items) |-> restoreBigInts(data.items[i])])
    ELSE IF data.t = "object"
    THEN JsObject([i \in 1 .. Len(data.props) |->
                    Prop(data.props[i].key, restoreBigInts(data.props[i].val))])
    ELSE data

\* TRUE when JSON.stringify(value) raises a TypeError: a bigint is left in it
RECURSIVE JSON_stringify_throws(_)
JSON_stringify_throws(value) ==
    IF value.t = "bigint" THEN TRUE
    ELSE IF value.t = "array"
    THEN \E i \in 1 .. Len(value.items) : JSON_stringify_throws(value.items[i])
    ELSE IF value.t = "object"
    THEN \E i \in 1 .. Len(value.props) : JSON_stringify_throws(value.props[i].val)
    ELSE FALSE

RECURSIVE SelectProps(_)
\* the properties JSON.stringify writes: those whose value is not undefined
SelectProps(props) ==
    IF props = <<>> THEN <<>>
    ELSE IF Head(props).val.t = "undefined" THEN SelectProps(Tail(props))
    ELSE <<Head(props)>> \o SelectProps(Tail(props))

\* JSON.stringify(value), as the document the text denotes: an undefined
\* array element is written as null, an undefined property is left out
RECURSIVE JSON_stringify(_)
JSON_stringify(value) ==
    IF value.t \in {"null", "undefined"} THEN [j |-> "null"]
    ELSE IF value.t = "number" THEN [j |-> "number", num |-> value.num]
    ELSE IF value.t = "boolean" THEN [j |-> "boolean", bool |-> value.bool]
    ELSE IF value.t = "string" THEN [j |-> "string", str |-> value.str]
    ELSE IF value.t = "array"
    THEN [j |-> "array",
          items |-> [i \in 1 .. Len(value.items) |-> JSON_stringify(value.items[i])]]
    ELSE LET props == SelectProps(value.props)
         IN  [j |-> "object",
              props |-> [i \in 1 .. Len(props) |->
                            Prop(props[i].key, JSON_stringify(props[i].val))]]

RECURSIVE JSON_parse(_)
JSON_parse(doc) ==
    IF doc.j = "null" THEN JsNull
    ELSE IF doc.j = "number" THEN JsNumber(doc.num)
    ELSE IF doc.j = "boolean" THEN JsBoolean(doc.bool)
    ELSE IF doc.j = "string" THEN JsString(doc.str)
    ELSE IF doc.j = "array"
    THEN JsArray([i \in 1 .. Len(doc.items) |-> JSON_parse(doc.items[i])])
    ELSE JsObject([i \in 1 .. Len(doc.props) |->
                    Prop(doc.props[i].key, JSON_parse(doc.props[i].val))])

\* the truthiness test of "if (cachedPaths)"
Truthy(value) ==
    CASE value.t \in {"null", "undefined"} -> FALSE
      [] value.t = "number" -> value.num # 0
      [] value.t = "boolean" -> value.bool
      [] value.t = "string" -> value.str # <<>>
      [] value.t = "bigint" -> value.big # <<0>>
      [] OTHER -> TRUE

----------------------------------------------------------------------------
(* The JavaScript value of a route: what paths.push stores.                *)

NumbersToJs(handles) == JsArray([i \in 1 .. Len(handles) |-> JsNumber(handles[i])])
BigIntsToJs(nodes) == JsArray([i \in 1 .. Len(nodes) |-> JsBigInt(nodes[i])])

DeclDataToJs(d) ==
    JsObject(
        << Prop("index", JsNumber(d.index)),
           Prop("originalIndex", JsNumber(d.originalIndex)),
           Prop("name", JsString(d.name)),
           Prop("fqn", JsString(d.fqn)),
           Prop("targetFqn", JsString(d.targetFqn)),
           Prop("category", JsNumber(d.category)),
           Prop("docs", JsString(d.docs)),
           Prop("isAlias", JsBoolean(d.isAlias)) >>
        \o (IF d.protoHtml # <<>>
            THEN <<Prop("protoHtml", JsString(d.protoHtml[1]))>> ELSE <<>>)
        \o (IF d.doctestHtml # <<>>
            THEN <<Prop("doctestHtml", JsString(d.doctestHtml[1]))>> ELSE <<>>)
        \o (IF d.errorSetBaseDecl # <<>>
            THEN <<Prop("errorSetBaseDecl", JsNumber(d.errorSetBaseDecl[1]))>>
            ELSE <<>>)
        \o << Prop("params", NumbersToJs(d.params)),
              Prop("fields", NumbersToJs(d.fields)),
              Prop("members", NumbersToJs(d.members)),
              Prop("errorSetNodes", BigIntsToJs(d.errorSetNodes)) >>)

RouteToJs(route) ==
    JsObject(<< Prop("params", JsObject(<< Prop("module", JsString(route.module)),
                                           Prop("path", JsString(route.path)) >>)),
                Prop("props", JsObject(<< Prop("declData",
                                               DeclDataToJs(route.declData)) >>)) >>)

RoutesToJs(routes) == JsArray([i \in 1 .. Len(routes) |-> RouteToJs(routes[i])])

----------------------------------------------------------------------------
(* The cache pipeline on its own: makeSerializable, JSON.stringify and     *)
(* writeFile, readFile and JSON.parse, restoreBigInts, applied to a route  *)
(* sequence.                                                               *)

\* 18446744073709551615 = 2^64 - 1 and 9007199254740993 = 2^53 + 1
MaxUint64 == <<1, 8, 4, 4, 6, 7, 4, 4, 0, 7, 3, 7, 0, 9, 5, 5, 1, 6, 1, 5>>
Unsafe53 == <<9, 0, 0, 7, 1, 9, 9, 2, 5, 4, 7, 4, 0, 9, 9, 3>>

RtNodes == {BigZero, <<5>>, MaxUint64, Unsafe53}
RtNodeLists == UNION {[1 .. n -> RtNodes] : n \in 0 .. MaxNodes}

\* declaration names: "f", "__bigint__:7", "__bigint__:x" and "__bigint__:"
RtNames == {<<"f">>, BigIntPrefix \o <<"7">>, BigIntPrefix \o <<"x">>, BigIntPrefix}

\* a route as the enumerator pushes it, for a function named name
RtRoute(name, nodes, hasBase) ==
    [module |-> <<"a">>,
     path |-> name,
     declData |-> [index |-> 2, originalIndex |-> 2, name |-> name,
                   fqn |-> <<"a", Dot>> \o name,
                   targetFqn |-> <<"a", Dot>> \o name,
                   category |-> CAT_function, docs |-> <<"d">>,
                   isAlias |-> FALSE, params |-> <<0>>, fields |-> <<>>,
                   members |-> <<>>, errorSetNodes |-> nodes,
                   errorSetBaseDecl |-> IF hasBase THEN <<2>> ELSE <<>>,
                   protoHtml |-> <<<<"p">>>>, doctestHtml |-> <<<<>>>>]]

RtRoutes == {RtRoute(name, nodes, hasBase) :
                name \in RtNames, nodes \in RtNodeLists, hasBase \in BOOLEAN}

RtRouteLists == UNION {[1 .. n -> RtRoutes] : n \in 0 .. MaxRoutes}

RtUnchanged ==
    UNCHANGED <<store, call, wasmInstance, moduleList, main, tasks, paths,
                processedFqns, cacheFile, storeOps>>

\* const serializablePaths = makeSerializable(paths)
RtMakeSerializable ==
    /\ rt.pc = "start"
    /\ rt' = [rt EXCEPT !.pc = "serializable",
                        !.serializable = makeSerializable(rt.routes)]
    /\ RtUnchanged

\* fs.writeFile(PATHS_CACHE_FILE, JSON.stringify(serializablePaths))
RtWriteFile ==
    /\ rt.pc = "serializable"
    /\ IF JSON_stringify_throws(rt.serializable)
       THEN rt' = [rt EXCEPT !.pc = "threw"]
       ELSE rt' = [rt EXCEPT !.pc = "written",
                             !.doc = JSON_stringify(rt.serializable)]
    /\ RtUnchanged

\* JSON.parse(await fs.readFile(PATHS_CACHE_FILE, "utf-8"))
RtReadFile ==
    /\ rt.pc = "written"
    /\ rt' = [rt EXCEPT !.pc = "parsed", !.parsed = JSON_parse(rt.doc)]
    /\ RtUnchanged

\* restoreBigInts(...), whose BigInt() may raise a SyntaxError
RtRestoreBigInts ==
    /\ rt.pc = "parsed"
    /\ IF restoreBigInts_throws(rt.parsed)
       THEN rt' = [rt EXCEPT !.pc = "threw"]
       ELSE rt' = [rt EXCEPT !.pc = "restored",
                             !.restored = restoreBigInts(rt.parsed)]
    /\ RtUnchanged

InitRoundTrip ==
    /\ store = MkResolveStore([h \in ResolveH |-> [alias |-> FALSE, to |-> NotFound]])
    /\ call = IdleCall
    /\ wasmInstance = FALSE
    /\ moduleList = <<>>
    /\ main = IdleMain
    /\ tasks = <<>>
    /\ paths = <<>>
    /\ processedFqns = {}
    /\ cacheFile = [kind |-> "absent"]
    /\ storeOps = 0
    /\ \E routes \in RtRouteLists :
            rt = [pc |-> "start", routes |-> RoutesToJs(routes),
                  serializable |-> JsNull, doc |-> [j |-> "null"],
                  parsed |-> JsNull, restored |-> JsNull]

NextRoundTrip ==
    \/ RtMakeSerializable
    \/ RtWriteFile
    \/ RtReadFile
    \/ RtRestoreBigInts

SpecRoundTrip == InitRoundTrip /\ [][NextRoundTrip]_vars

----------------------------------------------------------------------------
(* Module discovery.                                                       *)

MAX_MODULES_CHECK == 10000

\* store.modules is the module table of the store; store.beyond is what the
\* store reports for every index past the table: the empty name, or a module
module_name(i) ==
    IF i < Len(store.modules) THEN store.modules[i + 1].name ELSE store.beyond.name
find_module_root(i) ==
    IF i < Len(store.modules) THEN store.modules[i + 1].root ELSE store.beyond.root

\* the characters of the modelled strings, in collation order
CharOrder == <<".", "/", ":", "[", "]", "_", "0", "1", "2", "3", "4", "5", "6",
               "7", "8", "9", "a", "b", "d", "g", "i", "I", "n", "p", "r", "s",
               "t", "u", "v", "w", "x", "y">>
CharRank(c) == CHOOSE k \in 1 .. Len(CharOrder) : CharOrder[k] = c

\* a.localeCompare(b) < 0
RECURSIVE StringLess(_, _)
StringLess(a, b) ==
    IF b = <<>> THEN FALSE
    ELSE IF a = <<>> THEN TRUE
    ELSE IF Head(a) = Head(b) THEN StringLess(Tail(a), Tail(b))
    ELSE CharRank(Head(a)) < CharRank(Head(b))

\* list.sort((a, b) => a.name.localeCompare(b.name)): a stable sort by name.
\* SortRank(list, i) is the place of list[i] in the sorted list: one more than
\* the number of entries that the comparison, or on a tie the order of the
\* list, puts before it
SortRank(list, i) ==
    1 + Cardinality({j \in 1 .. Len(list) :
            \/ StringLess(list[j].name, list[i].name)
            \/ /\ ~StringLess(list[i].name, list[j].name)
               /\ j < i})

SortByName(list) ==
    [p \in 1 .. Len(list) |->
        list[CHOOSE i \in 1 .. Len(list) : SortRank(list, i) = p]]

\* the while loop of updateModuleList, from probe index i on
RECURSIVE updateModuleList_loop(_, _)
updateModuleList_loop(i, list) ==
    IF ~(i < MAX_MODULES_CHECK) THEN list
    ELSE IF Len(module_name(i)) = 0 THEN list
    ELSE updateModuleList_loop(i + 1,
            IF find_module_root(i) # NotFound
            THEN Append(list, [name |-> module_name(i),
                               rootDeclIndex |-> find_module_root(i)])
            ELSE list)

updateModuleList == SortByName(updateModuleList_loop(0, <<>>))

\* lines 274-276: the member handles getModuleData fetches
getModuleData_memberIndices(rootDeclIndex) ==
    namespace_members(rootDeclIndex, FALSE)

\* src/lib/docParser.ts lines 493-500: the handles getAllDeclarations hands
\* to processDeclarations, the members of the roots of modules[from ..]
\* that are not in seen, in the order they were added to the set
RECURSIVE docParser_getAllDeclarations_indices(_, _, _)
docParser_getAllDeclarations_indices(modules, from, seen) ==
    IF from > Len(modules) THEN seen
    ELSE LET memberIndices == namespace_members(modules[from].rootDeclIndex, TRUE)
             Fresh(h) == \A k \in 1 .. Len(seen) : seen[k] # h
         IN  docParser_getAllDeclarations_indices(
                modules, from + 1, seen \o SelectSeq(memberIndices, Fresh))

\* getModuleData as one synchronous run, with the status of getDeclData
getModuleData(moduleName) ==
    LET found == {i \in 1 .. Len(moduleList) : moduleList[i].name = moduleName}
    IN  IF found = {} THEN [status |-> "throw"]
        ELSE LET moduleInfo == moduleList[CHOOSE i \in found : \A k \in found : i <= k]
                 rootDeclIndex == moduleInfo.rootDeclIndex
                 declarations ==
                    processDeclarations(getModuleData_memberIndices(rootDeclIndex))
             IN  IF declarations.status # "ok" THEN [status |-> declarations.status]
                 ELSE IF decl_docs_html_throws(rootDeclIndex) THEN [status |-> "throw"]
                 ELSE [status |-> "ok", name |-> moduleName,
                       rootDeclIndex |-> rootDeclIndex,
                       declarations |-> declarations.decls,
                       fields |-> decl_fields(rootDeclIndex)]

----------------------------------------------------------------------------
(* String helpers of generateDeclarationPaths.                             *)

\* str.split(sep) for a one-character separator
RECURSIVE split(_, _)
split(str, sep) ==
    IF \A i \in 1 .. Len(str) : str[i] # sep THEN <<str>>
    ELSE LET k == CHOOSE i \in 1 .. Len(str) :
                        str[i] = sep /\ \A m \in 1 .. (i - 1) : str[m] # sep
         IN  <<SubSeq(str, 1, k - 1)>> \o split(SubSeq(str, k + 1, Len(str)), sep)

\* parts.join(sep)
RECURSIVE join(_, _)
join(parts, sep) ==
    IF parts = <<>> THEN <<>>
    ELSE IF Len(parts) = 1 THEN parts[1]
    ELSE parts[1] \o <<sep>> \o join(Tail(parts), sep)

----------------------------------------------------------------------------
(* generateDeclarationPaths.  main.pc is the position of the call; tasks   *)
(* holds every async task it started, in the order they were started:      *)
(* kind "module" is one callback of modules.map, kind "decl" one call of   *)
(* processDeclarationRecursively that got past the visited check.  A step  *)
(* of a task is the settling of the call it awaits plus the code up to its *)
(* next await; the store does not change while the tasks run, so what the  *)
(* awaited call returns is computed when the step is taken.                *)

\* a visited check that does not mark the FQN
processDeclarationRecursively_enter_noAdd(declFqn, visited) ==
    [skip |-> declFqn \in visited, visited |-> visited]

\* lines 176-177: the visited check and the marking
processDeclarationRecursively_enter(declFqn, visited) ==
    [skip |-> declFqn \in visited, visited |-> visited \cup {declFqn}]

NewTask(kind, key, parent) ==
    [kind |-> kind, key |-> key, pc |-> IF kind = "module" THEN "getModuleData"
                                        ELSE "getDeclData",
     parent |-> parent, list |-> <<>>, failed |-> FALSE]

\* a call that, on a visited FQN, returns a promise that is never settled
processDeclarationRecursively_start_neverSettles(declFqn, parent, ts, visited) ==
    LET enter == processDeclarationRecursively_enter(declFqn, visited)
    IN  [tasks |-> Append(ts, [NewTask("decl", declFqn, parent) EXCEPT
                                  !.pc = IF enter.skip THEN "pending" ELSE @]),
         visited |-> enter.visited]

\* a call that goes on to getDeclData whether or not the FQN was visited
processDeclarationRecursively_start_always(declFqn, parent, ts, visited) ==
    LET enter == processDeclarationRecursively_enter(declFqn, visited)
    IN  [tasks |-> Append(ts, NewTask("decl", declFqn, parent)),
         visited |-> enter.visited]

\* lines 175-179: one call of processDeclarationRecursively up to its first
\* await: it returns at once on a visited FQN, and otherwise marks the FQN
\* and calls getDeclData
processDeclarationRecursively_start(declFqn, parent, ts, visited) ==
    LET enter == processDeclarationRecursively_enter(declFqn, visited)
    IN  [tasks |-> IF enter.skip THEN ts
                   ELSE Append(ts, NewTask("decl", declFqn, parent)),
         visited |-> enter.visited]

\* fqns.map((fqn) => processDeclarationRecursively(fqn)): every call runs up
\* to its first await before the next call is made
RECURSIVE StartAll(_, _, _, _)
StartAll(fqns, parent, ts, visited) ==
    IF fqns = <<>> THEN [tasks |-> ts, visited |-> visited]
    ELSE LET started == processDeclarationRecursively_start(Head(fqns), parent,
                                                            ts, visited)
         IN  StartAll(Tail(fqns), parent, started.tasks, started.visited)

\* lines 227-235: the FQNs of the declarations that have one
RECURSIVE ValidFqns(_)
ValidFqns(declarations) ==
    IF declarations = <<>> THEN <<>>
    ELSE IF Head(declarations).fqn = EmptyString THEN ValidFqns(Tail(declarations))
    ELSE <<Head(declarations).fqn>> \o ValidFqns(Tail(declarations))

AllFqns(declarations) == [i \in 1 .. Len(declarations) |-> declarations[i].fqn]

\* lines 123-142: the value getCachedPaths returns, JsNull for "null"
getCachedPaths ==
    IF cacheFile.kind # "file" THEN JsNull
    ELSE IF ~cacheFile.readable \/ ~cacheFile.syntax THEN JsNull
    ELSE IF restoreBigInts_throws(JSON_parse(cacheFile.doc)) THEN JsNull
    ELSE restoreBigInts(JSON_parse(cacheFile.doc))

Running == main.pc = "awaitModules" /\ ~main.hung

\* a test that uses the cached paths whatever the flag says
usesCachedPaths_ignoreFlag(forceRegenerate, cachedPaths) == Truthy(cachedPaths)

\* lines 151-154: TRUE when the call returns the cached paths
usesCachedPaths(forceRegenerate, cachedPaths) ==
    ~forceRegenerate /\ Truthy(cachedPaths)

\* generateDeclarationPaths(forceRegenerate) is called
CallGenerate(forceRegenerate) ==
    /\ main.pc = "idle"
    /\ main.calls < MaxCalls
    /\ main' = [main EXCEPT !.pc = "start", !.forceRegenerate = forceRegenerate,
                            !.calls = @ + 1, !.atCall = cacheFile]
    /\ tasks' = <<>>
    /\ paths' = <<>>
    /\ processedFqns' = {}
    /\ storeOps' = 0
    /\ UNCHANGED <<store, call, wasmInstance, moduleList, cacheFile, rt>>

\* lines 151-154, a cached result is found and returned
CacheHit ==
    /\ main.pc = "start"
    /\ usesCachedPaths(main.forceRegenerate, getCachedPaths)
    /\ main' = [main EXCEPT !.pc = "returned", !.result = getCachedPaths,
                            !.cacheHit = TRUE]
    /\ UNCHANGED <<store, call, wasmInstance, moduleList, tasks, paths,
                   processedFqns, cacheFile, storeOps, rt>>

\* lines 151-166, no cached result is used: docParser is imported
CacheMiss ==
    /\ main.pc = "start"
    /\ ~usesCachedPaths(main.forceRegenerate, getCachedPaths)
    /\ main' = [main EXCEPT !.pc = "getAllModules", !.cacheHit = FALSE]
    /\ UNCHANGED <<store, call, wasmInstance, moduleList, tasks, paths,
                   processedFqns, cacheFile, storeOps, rt>>

\* lines 166-249: getAllModules (which initialises the store) returns and
\* modules.map starts one task per module
GetAllModules ==
    /\ main.pc = "getAllModules"
    /\ LET modules == IF wasmInstance THEN moduleList ELSE updateModuleList
       IN  /\ wasmInstance' = TRUE
           /\ moduleList' = modules
           /\ tasks' = [i \in 1 .. Len(modules) |-> NewTask("module", modules[i].name, 0)]
    /\ main' = [main EXCEPT !.pc = "awaitModules"]
    /\ storeOps' = storeOps + 1
    /\ UNCHANGED <<store, call, paths, processedFqns, cacheFile, rt>>

\* a synchronous loop that never exits blocks the event loop for good
Hang ==
    /\ main' = [main EXCEPT !.hung = TRUE]
    /\ UNCHANGED <<tasks, paths, processedFqns>>

\* a handler that ends every task of the enumeration when one task fails
catchError_abort(ts, t) ==
    [i \in DOMAIN ts |-> [ts[i] EXCEPT !.pc = "done", !.failed = @ \/ i = t]]

\* lines 212-217 and 242-247: the catch block of a task logs the error, and
\* the task ends
catchError(ts, t) == [ts EXCEPT ![t].pc = "done", ![t].failed = TRUE]

\* a test that descends into namespaces only
hasNestedMembers_namespaceOnly(declData) ==
    /\ declData.category = CAT_namespace
    /\ Len(declData.members) > 0

\* lines 197-203: the test that decides whether the members are processed
hasNestedMembers(declData) ==
    /\ declData.category \in {CAT_container, CAT_namespace, CAT_type}
    /\ Len(declData.members) > 0

\* lines 224-240: getModuleData(module.name) settles and the module's
\* declarations are handed to processDeclarationRecursively
ModuleStart(t) ==
    /\ Running
    /\ tasks[t].kind = "module"
    /\ tasks[t].pc = "getModuleData"
    /\ LET moduleData == getModuleData(tasks[t].key)
       IN  CASE moduleData.status = "hang" -> Hang
             [] moduleData.status = "throw" ->
                    /\ tasks' = catchError(tasks, t)
                    /\ UNCHANGED <<main, paths, processedFqns>>
             [] moduleData.status = "ok" ->
                    LET started == StartAll(ValidFqns(moduleData.declarations), t,
                                            [tasks EXCEPT ![t].pc = "awaitAll"],
                                            processedFqns)
                    IN  /\ tasks' = started.tasks
                        /\ processedFqns' = started.visited
                        /\ UNCHANGED <<main, paths>>
    /\ storeOps' = storeOps + 1
    /\ UNCHANGED <<store, call, wasmInstance, moduleList, cacheFile, rt>>

\* a route whose path keeps the dots of the FQN
processDeclarationRecursively_route_dots(declFqn, declData) ==
    LET fqnParts == split(declFqn, Dot)
    IN  [skip |-> Len(fqnParts) < 2,
         route |-> [module |-> fqnParts[1],
                    path |-> join(Tail(fqnParts), Dot),
                    declData |-> declData]]

\* lines 181-195: the route pushed for declFqn, skip when none is pushed
processDeclarationRecursively_route(declFqn, declData) ==
    LET fqnParts == split(declFqn, Dot)
    IN  [skip |-> Len(fqnParts) < 2,
         route |-> [module |-> fqnParts[1],
                    path |-> join(Tail(fqnParts), "/"),
                    declData |-> declData]]

\* lines 180-206: getDeclDataInternal(declFqn) settles, the route is pushed
\* and processDeclarationsInternal is called on the members
DeclPush(t) ==
    /\ Running
    /\ tasks[t].kind = "decl"
    /\ tasks[t].pc = "getDeclData"
    /\ LET declFqn == tasks[t].key
           declData == getDeclData(StringId(declFqn))
           pushed == processDeclarationRecursively_route(declFqn, declData.data)
       IN  CASE declData.status = "hang" -> Hang
             [] declData.status = "throw" ->
                    /\ tasks' = catchError(tasks, t)
                    /\ UNCHANGED <<main, paths, processedFqns>>
             [] declData.status = "ok" /\ pushed.skip ->
                    /\ tasks' = [tasks EXCEPT ![t].pc = "done"]
                    /\ UNCHANGED <<main, paths, processedFqns>>
             [] declData.status = "ok" /\ ~pushed.skip ->
                    LET route == pushed.route
                        recurse == hasNestedMembers(declData.data)
                    IN  /\ paths' = Append(paths, route)
                        /\ tasks' = [tasks EXCEPT
                                ![t].pc = IF recurse THEN "processDeclarations"
                                          ELSE "done",
                                ![t].list = IF recurse THEN declData.data.members
                                            ELSE <<>>]
                        /\ UNCHANGED <<main, processedFqns>>
    /\ storeOps' = storeOps + 1
    /\ UNCHANGED <<store, call, wasmInstance, moduleList, cacheFile, rt>>

\* lines 206-211: processDeclarationsInternal settles and the members are
\* handed to processDeclarationRecursively
DeclStart(t) ==
    /\ Running
    /\ tasks[t].kind = "decl"
    /\ tasks[t].pc = "processDeclarations"
    /\ LET nestedDecls == processDeclarations(tasks[t].list)
       IN  IF nestedDecls.status = "hang" THEN Hang
           ELSE IF nestedDecls.status = "throw"
           THEN /\ tasks' = catchError(tasks, t)
                /\ UNCHANGED <<main, paths, processedFqns>>
           ELSE LET started == StartAll(AllFqns(nestedDecls.decls), t,
                                        [tasks EXCEPT ![t].pc = "awaitAll",
                                                      ![t].list = <<>>],
                                        processedFqns)
                IN  /\ tasks' = started.tasks
                    /\ processedFqns' = started.visited
                    /\ UNCHANGED <<main, paths>>
    /\ storeOps' = storeOps + 1
    /\ UNCHANGED <<store, call, wasmInstance, moduleList, cacheFile, rt>>

\* a task has ended when it returned, or when it awaits the Promise.all over
\* the tasks it started and each of those has ended
RECURSIVE TaskEnded(_)
TaskEnded(t) ==
    \/ tasks[t].pc = "done"
    \/ /\ tasks[t].pc = "awaitAll"
       /\ \A c \in 1 .. Len(tasks) : tasks[c].parent = t => TaskEnded(c)

\* a join that does not wait for the tasks
MainJoin_early ==
    /\ Running
    /\ main' = [main EXCEPT !.pc = "writeFile"]
    /\ UNCHANGED <<store, call, wasmInstance, moduleList, tasks, paths,
                   processedFqns, cacheFile, storeOps, rt>>

\* lines 221-256: the Promise.all over the modules is fulfilled
MainJoin ==
    /\ Running
    /\ \A t \in 1 .. Len(tasks) : tasks[t].parent = 0 => TaskEnded(t)
    /\ main' = [main EXCEPT !.pc = "writeFile"]
    /\ UNCHANGED <<store, call, wasmInstance, moduleList, tasks, paths,
                   processedFqns, cacheFile, storeOps, rt>>

\* a write whose failure is raised to the caller
WriteFileAndReturn_rethrow(written) ==
    /\ main.pc = "writeFile"
    /\ cacheFile' = IF written
                    THEN [kind |-> "file", readable |-> TRUE, syntax |-> TRUE,
                          doc |-> JSON_stringify(makeSerializable(RoutesToJs(paths)))]
                    ELSE cacheFile
    /\ main' = IF written
               THEN [main EXCEPT !.pc = "returned", !.result = RoutesToJs(paths),
                                 !.written = written]
               ELSE [main EXCEPT !.pc = "threw", !.written = written]
    /\ UNCHANGED <<store, call, wasmInstance, moduleList, tasks, paths,
                   processedFqns, storeOps, rt>>

\* lines 256-266: the cache file is written, or the write fails, and the
\* paths are returned
WriteFileAndReturn(written) ==
    /\ main.pc = "writeFile"
    /\ cacheFile' = IF written
                    THEN [kind |-> "file", readable |-> TRUE, syntax |-> TRUE,
                          doc |-> JSON_stringify(makeSerializable(RoutesToJs(paths)))]
                    ELSE cacheFile
    /\ main' = [main EXCEPT !.pc = "returned", !.result = RoutesToJs(paths),
                            !.written = written]
    /\ UNCHANGED <<store, call, wasmInstance, moduleList, tasks, paths,
                   processedFqns, storeOps, rt>>

\* the caller has taken the returned routes; the locals of the call are gone
TakeResult ==
    /\ main.pc = "returned"
    /\ main' = [IdleMain EXCEPT !.calls = main.calls,
                                !.prev = [fresh |-> ~main.cacheHit,
                                          written |-> main.written,
                                          result |-> main.result]]
    /\ tasks' = <<>>
    /\ paths' = <<>>
    /\ processedFqns' = {}
    /\ storeOps' = 0
    /\ UNCHANGED <<store, call, wasmInstance, moduleList, cacheFile, rt>>

\* clearPathCache() is called between two enumerations and removes the file
clearPathCache ==
    /\ main.pc = "idle"
    /\ cacheFile.kind = "file"
    /\ cacheFile' = [kind |-> "absent"]
    /\ UNCHANGED <<store, call, wasmInstance, moduleList, main, tasks, paths,
                   processedFqns, storeOps, rt>>

----------------------------------------------------------------------------
(* Stores the enumerator is run on.  Handles 0 and 1 are the roots of the  *)
(* modules "a" and "b"; every other handle is a declaration whose parent   *)
(* is a root or an earlier container (handle 2 is declared in module "a"), *)
(* and is a function, a container or an alias of any other handle or of    *)
(* the not-found handle; at most MaxAliases of them are aliases.  At most  *)
(* one handle fails: one of the two documentation exports raises an error  *)
(* for it.                                                                 *)

EnumH == 0 .. (EnumDecls + 1)
EnumRoots == {0, 1}
EnumD == EnumH \ EnumRoots

ModuleNameOf(root) == IF root = 0 THEN <<"a">> ELSE <<"b">>

DeclShapes ==
    [parent : EnumH, alias : {FALSE}, cat : {CAT_function, CAT_container},
     to : {NotFound}]
        \cup [parent : EnumH, alias : {TRUE}, cat : {CAT_alias},
              to : EnumH \cup {NotFound}]

EnumShapes ==
    {sh \in [EnumD -> DeclShapes] :
        /\ Cardinality({h \in EnumD : sh[h].alias}) <= MaxAliases
        /\ \A h \in EnumD :
            /\ sh[h].parent < h
            /\ h = 2 => sh[h].parent = 0
            /\ sh[h].to # h
            /\ sh[h].parent \in EnumD => sh[sh[h].parent].cat = CAT_container}

RECURSIVE EnumFqn(_, _)
EnumFqn(sh, h) ==
    IF h \in EnumRoots THEN ModuleNameOf(h)
    ELSE EnumFqn(sh, sh[h].parent) \o <<Dot>> \o NameOf(h)

\* the handles of S in increasing order
RECURSIVE Ascending(_)
Ascending(S) ==
    IF S = {} THEN <<>>
    ELSE LET least == CHOOSE h \in S : \A g \in S : h <= g
         IN  <<least>> \o Ascending(S \ {least})

EnumFailures ==
    {[fault |-> {}, faultShort |-> {}]}
        \cup {[fault |-> {h}, faultShort |-> {}] : h \in EnumH}
        \cup {[fault |-> {}, faultShort |-> {h}] : h \in EnumD}

MkEnumStore(sh, failure) ==
    [cat |-> [h \in EnumH |-> IF h \in EnumRoots THEN CAT_namespace ELSE sh[h].cat],
     aliasee |-> [h \in EnumH |-> IF h \in EnumRoots THEN NotFound ELSE sh[h].to],
     fqn |-> [h \in EnumH |-> EnumFqn(sh, h)],
     name |-> [h \in EnumH |-> IF h \in EnumRoots THEN ModuleNameOf(h) ELSE NameOf(h)],
     members |-> [h \in EnumH |-> Ascending({d \in EnumD : sh[d].parent = h})],
     docs |-> [h \in EnumH |-> <<"d">> \o NameOf(h)],
     proto |-> [h \in EnumH |-> <<"p">> \o NameOf(h)],
     doctest |-> [h \in EnumH |-> <<"t">> \o NameOf(h)],
     params |-> [h \in EnumH |-> <<0>>],
     fields |-> [h \in EnumH |-> <<1>>],
     fnErrorSet |-> [h \in EnumH |-> IF h = 2 THEN <<7>> ELSE BigZero],
     fnErrorSetDecl |-> [h \in EnumH |-> h],
     errorNodes |-> [h \in EnumH |-> << <<1, 8>> >>],
     miss |-> {},
     fault |-> failure.fault,
     faultShort |-> failure.faultShort,
     private |-> {},
     modules |-> <<[name |-> ModuleNameOf(1), root |-> 1],
                   [name |-> ModuleNameOf(0), root |-> 0]>>,
     beyond |-> [name |-> EmptyString, root |-> NotFound]]

InitEnum ==
    /\ \E sh \in EnumShapes, failure \in EnumFailures : store = MkEnumStore(sh, failure)
    /\ call = IdleCall
    /\ wasmInstance = FALSE
    /\ moduleList = <<>>
    /\ main = IdleMain
    /\ tasks = <<>>
    /\ paths = <<>>
    /\ processedFqns = {}
    /\ cacheFile = [kind |-> "absent"]
    /\ storeOps = 0
    /\ rt = IdleRt

\* getStaticPaths calls generateDeclarationPaths(false)
NextEnum ==
    \/ CallGenerate(FALSE)
    \/ CacheMiss
    \/ GetAllModules
    \/ \E t \in 1 .. Len(tasks) : ModuleStart(t)
    \/ \E t \in 1 .. Len(tasks) : DeclPush(t)
    \/ \E t \in 1 .. Len(tasks) : DeclStart(t)
    \/ MainJoin
    \/ \E written \in BOOLEAN : WriteFileAndReturn(written)

SpecEnum == InitEnum /\ [][NextEnum]_vars

\* a step of NextEnum can be taken: the guards of its actions
StepReady ==
    \/ main.pc = "idle" /\ main.calls < MaxCalls
    \/ main.pc = "start" /\ ~usesCachedPaths(main.forceRegenerate, getCachedPaths)
    \/ main.pc \in {"getAllModules", "writeFile"}
    \/ /\ Running
       /\ \/ \E t \in 1 .. Len(tasks) :
                tasks[t].pc \in {"getModuleData", "getDeclData", "processDeclarations"}
          \/ \A t \in 1 .. Len(tasks) : tasks[t].parent = 0 => TaskEnded(t)

\* the event loop runs a task that is ready, and the call that was made runs
\* on: a step that can be taken is taken (weak fairness of NextEnum, with
\* its guards written out)
FairSpecEnum == SpecEnum /\ (<>[]StepReady => []<><<NextEnum>>_vars)

----------------------------------------------------------------------------
(* The enumeration on stores whose module table does not list every module *)
(* that declarations are in: the table names module "b" with its root,    *)
(* names it without a root the store can find, or stops before it.         *)

ForeignTables ==
    {<<[name |-> ModuleNameOf(1), root |-> 1], [name |-> ModuleNameOf(0), root |-> 0]>>,
     <<[name |-> ModuleNameOf(1), root |-> NotFound],
       [name |-> ModuleNameOf(0), root |-> 0]>>,
     <<[name |-> ModuleNameOf(0), root |-> 0]>>}

InitForeign ==
    /\ \E sh \in EnumShapes, table \in ForeignTables :
            store = [MkEnumStore(sh, [fault |-> {}, faultShort |-> {}])
                        EXCEPT !.modules = table]
    /\ call = IdleCall
    /\ wasmInstance = FALSE
    /\ moduleList = <<>>
    /\ main = IdleMain
    /\ tasks = <<>>
    /\ paths = <<>>
    /\ processedFqns = {}
    /\ cacheFile = [kind |-> "absent"]
    /\ storeOps = 0
    /\ rt = IdleRt

SpecForeign == InitForeign /\ [][NextEnum]_vars

----------------------------------------------------------------------------
(* Repeated calls against the cache file.  The store holds a container     *)
(* "a.s" whose members are the other declarations; the first member is     *)
(* named "t", "__bigint__:7" or "__bigint__:x".  The cache file starts     *)
(* absent, unreadable, holding text that is not JSON, holding the JSON     *)
(* text "{}", or holding the routes an earlier build wrote.                *)

CacheShape ==
    [h \in EnumD |->
        IF h = 2 THEN [parent |-> 0, alias |-> FALSE, cat |-> CAT_container,
                       to |-> NotFound]
        ELSE [parent |-> 2, alias |-> FALSE, cat |-> CAT_function, to |-> NotFound]]

CacheNames == {NameOf(3), BigIntPrefix \o <<"7">>, BigIntPrefix \o <<"x">>}

MkCacheStore(name) ==
    LET base == MkEnumStore(CacheShape, [fault |-> {}, faultShort |-> {}])
    IN  [base EXCEPT !.name[3] = name,
                     !.fqn[3] = base.fqn[2] \o <<Dot>> \o name]

CacheStores == {MkCacheStore(name) : name \in CacheNames}

\* the routes found in the cache file of an earlier build
EarlierRoutes == <<RtRoute(<<"f">>, <<MaxUint64>>, TRUE)>>

CacheFiles ==
    {[kind |-> "absent"],
     [kind |-> "file", readable |-> TRUE, syntax |-> TRUE,
      doc |-> JSON_stringify(makeSerializable(RoutesToJs(EarlierRoutes)))],
     [kind |-> "file", readable |-> TRUE, syntax |-> TRUE,
      doc |-> [j |-> "object", props |-> <<>>]],
     [kind |-> "file", readable |-> FALSE, syntax |-> TRUE, doc |-> [j |-> "null"]],
     [kind |-> "file", readable |-> TRUE, syntax |-> FALSE, doc |-> [j |-> "null"]]}

InitCache ==
    /\ store \in CacheStores
    /\ call = IdleCall
    /\ wasmInstance = FALSE
    /\ moduleList = <<>>
    /\ main = IdleMain
    /\ tasks = <<>>
    /\ paths = <<>>
    /\ processedFqns = {}
    /\ cacheFile \in CacheFiles
    /\ storeOps = 0
    /\ rt = IdleRt

NextCache ==
    \/ \E forceRegenerate \in BOOLEAN : CallGenerate(forceRegenerate)
    \/ CacheHit
    \/ CacheMiss
    \/ GetAllModules
    \/ \E t \in 1 .. Len(tasks) : ModuleStart(t)
    \/ \E t \in 1 .. Len(tasks) : DeclPush(t)
    \/ \E t \in 1 .. Len(tasks) : DeclStart(t)
    \/ MainJoin
    \/ \E written \in BOOLEAN : WriteFileAndReturn(written)
    \/ TakeResult
    \/ clearPathCache

SpecCache == InitCache /\ [][NextCache]_vars

----------------------------------------------------------------------------
(* Repeated calls on a store with a declaration whose assembly fails: the  *)
(* function "a.s", for which decl_docs_html raises an error.  Module "b"   *)
(* holds an alias of the root of module "a", named "t", "__bigint__:7" or  *)
(* "__bigint__:x", so "a.s" is reached from module "a" and through the     *)
(* alias; every further declaration is a function of module "b".           *)

PartialShape ==
    [h \in EnumD |->
        IF h = 2 THEN [parent |-> 0, alias |-> FALSE, cat |-> CAT_function,
                       to |-> NotFound]
        ELSE IF h = 3 THEN [parent |-> 1, alias |-> TRUE, cat |-> CAT_alias, to |-> 0]
        ELSE [parent |-> 1, alias |-> FALSE, cat |-> CAT_function, to |-> NotFound]]

MkPartialStore(name) ==
    LET base == MkEnumStore(PartialShape, [fault |-> {2}, faultShort |-> {}])
    IN  [base EXCEPT !.name[3] = name,
                     !.fqn[3] = base.fqn[1] \o <<Dot>> \o name]

PartialStores == {MkPartialStore(name) : name \in CacheNames}

InitPartial ==
    /\ store \in PartialStores
    /\ call = IdleCall
    /\ wasmInstance = FALSE
    /\ moduleList = <<>>
    /\ main = IdleMain
    /\ tasks = <<>>
    /\ paths = <<>>
    /\ processedFqns = {}
    /\ cacheFile \in CacheFiles
    /\ storeOps = 0
    /\ rt = IdleRt

SpecPartial == InitPartial /\ [][NextCache]_vars

----------------------------------------------------------------------------
(* updateModuleList, one probe per step.  call.fn names the function, of   *)
(* part_003 or of src/lib/docParser.ts; call.i is the loop index,          *)
(* call.probes counts the calls of module_name and call.last is the index  *)
(* of the latest one; call.warned records the warning of the safety bound. *)

FnUpdateModuleList == "updateModuleList"
FnDocParserUpdateModuleList == "docParser.updateModuleList"
ModuleListFns == {FnUpdateModuleList, FnDocParserUpdateModuleList}

\* a loop test without the safety bound
updateModuleList_cond_unbounded(i) == TRUE

\* part_003 line 225: the test of the while loop
updateModuleList_cond(i) == i < MAX_MODULES_CHECK

\* a loop body that keeps an entry whose root was not found
updateModuleList_body_keepUnresolved(i, list) ==
    IF Len(module_name(i)) = 0
    THEN [brk |-> TRUE, i |-> i, list |-> list]
    ELSE [brk |-> FALSE, i |-> i + 1,
          list |-> Append(list, [name |-> module_name(i),
                                 rootDeclIndex |-> find_module_root(i)])]

\* part_003 lines 226-247: one iteration of the while loop
updateModuleList_body(i, list) ==
    IF Len(module_name(i)) = 0
    THEN [brk |-> TRUE, i |-> i, list |-> list]
    ELSE [brk |-> FALSE, i |-> i + 1,
          list |-> IF find_module_root(i) # NotFound
                   THEN Append(list, [name |-> module_name(i),
                                      rootDeclIndex |-> find_module_root(i)])
                   ELSE list]

\* src/lib/docParser.ts line 163
docParser_updateModuleList_cond(i) == i < MAX_MODULES_CHECK

\* src/lib/docParser.ts lines 165-198
docParser_updateModuleList_body(i, list) ==
    IF Len(module_name(i)) = 0
    THEN [brk |-> TRUE, i |-> i, list |-> list]
    ELSE [brk |-> FALSE, i |-> i + 1,
          list |-> IF find_module_root(i) # NotFound
                   THEN Append(list, [name |-> module_name(i),
                                      rootDeclIndex |-> find_module_root(i)])
                   ELSE list]

ModuleLoopCondOf(fn, i) ==
    IF fn = FnUpdateModuleList THEN updateModuleList_cond(i)
    ELSE docParser_updateModuleList_cond(i)

ModuleLoopBodyOf(fn, i, list) ==
    IF fn = FnUpdateModuleList THEN updateModuleList_body(i, list)
    ELSE docParser_updateModuleList_body(i, list)

\* lines 216-223: the list is emptied and the loop index set to 0
CallUpdateModuleList(fn) ==
    /\ call.pc = "idle"
    /\ wasmInstance
    /\ call' = [fn |-> fn, pc |-> "loop", i |-> 0, probes |-> 0, last |-> NotFound,
                warned |-> FALSE]
    /\ moduleList' = <<>>
    /\ UNCHANGED <<store, wasmInstance, main, tasks, paths, processedFqns,
                   cacheFile, storeOps, rt>>

\* one iteration of the loop; on the break, the rest of the function: the
\* test of lines 249-253 and the sort of line 255
ModuleProbe ==
    /\ call.pc = "loop"
    /\ ModuleLoopCondOf(call.fn, call.i)
    /\ LET b == ModuleLoopBodyOf(call.fn, call.i, moduleList)
       IN  /\ call' = [call EXCEPT !.pc = IF b.brk THEN "done" ELSE "loop",
                                   !.i = b.i,
                                   !.probes = @ + 1,
                                   !.last = call.i,
                                   !.warned = b.brk /\ b.i = MAX_MODULES_CHECK]
           /\ moduleList' = IF b.brk THEN SortByName(b.list) ELSE b.list
    /\ UNCHANGED <<store, wasmInstance, main, tasks, paths, processedFqns,
                   cacheFile, storeOps, rt>>

\* the loop test fails: lines 249-255
ModuleLoopExit ==
    /\ call.pc = "loop"
    /\ ~ModuleLoopCondOf(call.fn, call.i)
    /\ call' = [call EXCEPT !.pc = "done", !.warned = (call.i = MAX_MODULES_CHECK)]
    /\ moduleList' = SortByName(moduleList)
    /\ UNCHANGED <<store, wasmInstance, main, tasks, paths, processedFqns,
                   cacheFile, storeOps, rt>>

ModuleNames == {EmptyString, ModuleNameOf(0), ModuleNameOf(1)}
ModuleRootHandles == {NotFound, 0, 1}
ModuleEntries ==
    {[name |-> n, root |-> r] : n \in ModuleNames \ {EmptyString},
                                r \in ModuleRootHandles}
        \cup {[name |-> EmptyString, root |-> NotFound]}

ModuleTables(len) == UNION {[1 .. n -> ModuleEntries] : n \in 0 .. len}

MkModuleStore(table, beyond) ==
    [MkResolveStore([h \in ResolveH |-> [alias |-> FALSE, to |-> NotFound]])
        EXCEPT !.modules = table, !.beyond = beyond]

\* stores whose names end with the table, and stores that report a module
\* without a root at every index past the table
ModuleStores ==
    {MkModuleStore(t, [name |-> EmptyString, root |-> NotFound]) :
        t \in ModuleTables(MaxModules)}
    \cup {MkModuleStore(t, [name |-> ModuleNameOf(1), root |-> NotFound]) :
            t \in {u \in ModuleTables(EndlessListed) :
                    \A k \in 1 .. Len(u) : u[k].name # EmptyString}}

InitModules ==
    /\ store \in ModuleStores
    /\ call = IdleCall
    /\ wasmInstance = TRUE
    /\ moduleList = <<>>
    /\ main = IdleMain
    /\ tasks = <<>>
    /\ paths = <<>>
    /\ processedFqns = {}
    /\ cacheFile = [kind |-> "absent"]
    /\ storeOps = 0
    /\ rt = IdleRt

NextModules ==
    \/ \E fn \in ModuleListFns : CallUpdateModuleList(fn)
    \/ ModuleProbe
    \/ ModuleLoopExit

SpecModules == InitModules /\ [][NextModules]_vars

FairSpecModules == SpecModules /\ WF_vars(NextModules)

----------------------------------------------------------------------------
(* initWasm with concurrent callers.  tasks holds one record per caller:   *)
(* pc is the await the caller is suspended at, and ran tells that the      *)
(* caller has instantiated the store and built the module list.            *)

NewCaller == [kind |-> "initWasm", pc |-> "idle", ran |-> FALSE]

\* part_003 lines 116-120: the test of wasmInstance, and the call of
\* downloadWasmAssets up to its await
InitWasmCall(c) ==
    /\ tasks[c].pc = "idle"
    /\ tasks' = [tasks EXCEPT ![c].pc =
                    IF wasmInstance THEN "done" ELSE "downloadWasmAssets"]
    /\ UNCHANGED <<store, call, wasmInstance, moduleList, main, paths,
                   processedFqns, cacheFile, storeOps, rt>>

\* lines 120-131: the assets are there; the wasm file is being read
InitWasmDownloaded(c) ==
    /\ tasks[c].pc = "downloadWasmAssets"
    /\ tasks' = [tasks EXCEPT ![c].pc = "readWasm"]
    /\ UNCHANGED <<store, call, wasmInstance, moduleList, main, paths,
                   processedFqns, cacheFile, storeOps, rt>>

\* lines 131-134: the wasm file is read; the tarball is being read
InitWasmReadWasm(c) ==
    /\ tasks[c].pc = "readWasm"
    /\ tasks' = [tasks EXCEPT ![c].pc = "readTarball"]
    /\ UNCHANGED <<store, call, wasmInstance, moduleList, main, paths,
                   processedFqns, cacheFile, storeOps, rt>>

\* lines 134-161: the tarball is read; the module is being instantiated
InitWasmReadTarball(c) ==
    /\ tasks[c].pc = "readTarball"
    /\ tasks' = [tasks EXCEPT ![c].pc = "instantiate"]
    /\ UNCHANGED <<store, call, wasmInstance, moduleList, main, paths,
                   processedFqns, cacheFile, storeOps, rt>>

\* lines 161-187: the instance is assigned, the tarball is unpacked and the
\* module list is built
InitWasmInstantiated(c) ==
    /\ tasks[c].pc = "instantiate"
    /\ wasmInstance' = TRUE
    /\ moduleList' = updateModuleList
    /\ tasks' = [tasks EXCEPT ![c].pc = "done", ![c].ran = TRUE]
    /\ UNCHANGED <<store, call, main, paths, processedFqns, cacheFile,
                   storeOps, rt>>

InitStores ==
    {MkModuleStore(t, [name |-> EmptyString, root |-> NotFound]) :
        t \in {u \in ModuleTables(2) :
                \A k \in 1 .. Len(u) : u[k].name # EmptyString /\ u[k].root # NotFound}}

InitInit ==
    /\ store \in InitStores
    /\ call = IdleCall
    /\ wasmInstance = FALSE
    /\ moduleList = <<>>
    /\ main = IdleMain
    /\ tasks = [c \in 1 .. MaxCallers |-> NewCaller]
    /\ paths = <<>>
    /\ processedFqns = {}
    /\ cacheFile = [kind |-> "absent"]
    /\ storeOps = 0
    /\ rt = IdleRt

NextInit ==
    \E c \in 1 .. MaxCallers :
        \/ InitWasmCall(c)
        \/ InitWasmDownloaded(c)
        \/ InitWasmReadWasm(c)
        \/ InitWasmReadTarball(c)
        \/ InitWasmInstantiated(c)

SpecInit == InitInit /\ [][NextInit]_vars

----------------------------------------------------------------------------
(* getDeclData on declarations of every category.  Handle 0 is a plain     *)
(* declaration of any category code, handle 1 an alias, and the calls are  *)
(* those of the resolver, one loop iteration per step.                     *)

\* the number of category codes past those constants.ts defines
MaxUnknownCodes == 1

PlainCategoryCodes == (0 .. (CAT_type_function + MaxUnknownCodes)) \ {CAT_alias}

MkAssembleStore(category, to, errorSetNode) ==
    [MkResolveStore([h \in ResolveH |->
                        IF h = 1 THEN [alias |-> TRUE, to |-> to]
                        ELSE [alias |-> FALSE, to |-> NotFound]])
        EXCEPT !.cat[0] = category, !.fnErrorSet[0] = errorSetNode]

AssembleStores ==
    {MkAssembleStore(category, to, errorSetNode) :
        category \in PlainCategoryCodes,
        to \in {0, 1, NotFound},
        errorSetNode \in {BigZero, <<7>>}}

InitAssemble ==
    /\ store \in AssembleStores
    /\ call = IdleCall
    /\ wasmInstance = TRUE
    /\ moduleList = <<>>
    /\ main = IdleMain
    /\ tasks = <<>>
    /\ paths = <<>>
    /\ processedFqns = {}
    /\ cacheFile = [kind |-> "absent"]
    /\ storeOps = 0
    /\ rt = IdleRt

NextAssemble ==
    \/ \E fn \in {FnGetDeclData, FnDocParserGetDeclData}, declIndex \in ResolveH :
            CallGetDeclData(fn, declIndex)
    \/ AliasLoopIter
    \/ AliasLoopExit

SpecAssemble == InitAssemble /\ [][NextAssemble]_vars

----------------------------------------------------------------------------
(* The three places that list the members of a declaration, on stores with *)
(* private members.  call.fn names the function, call.asked the handle     *)
(* whose members are listed and call.out the handles fetched.              *)

FnGetModuleData == "getModuleData"
FnDocParserGetAllDeclarations == "docParser.getAllDeclarations"

\* part_003 lines 458-470: getDeclData is called for a container or namespace
ListByGetDeclData(declIndex) ==
    /\ call.pc = "idle"
    /\ LET declData == getDeclData(NumberId(declIndex))
       IN  /\ declData.status = "ok"
           /\ declData.data.category \in {CAT_container, CAT_type, CAT_namespace}
           /\ call' = [fn |-> FnGetDeclData, pc |-> "done",
                       asked |-> declData.data.index,
                       out |-> declData.data.members]
    /\ ResolverUnchanged

\* part_003 lines 266-276: getModuleData is called by the enumerator
\* (part_004 line 224) for the module i of the list
ListByGetModuleData(i) ==
    /\ call.pc = "idle"
    /\ call' = [fn |-> FnGetModuleData, pc |-> "done",
                asked |-> moduleList[i].rootDeclIndex,
                out |-> getModuleData_memberIndices(moduleList[i].rootDeclIndex)]
    /\ ResolverUnchanged

\* src/lib/docParser.ts lines 484-506: getAllDeclarations is called
ListByGetAllDeclarations ==
    /\ call.pc = "idle"
    /\ call' = [fn |-> FnDocParserGetAllDeclarations, pc |-> "done",
                asked |-> NotFound,
                out |-> docParser_getAllDeclarations_indices(moduleList, 1, <<>>)]
    /\ ResolverUnchanged

\* the enumerated stores, with any of their declarations private
MemberStores ==
    {[MkEnumStore(sh, [fault |-> {}, faultShort |-> {}]) EXCEPT !.private = P] :
        sh \in EnumShapes, P \in SUBSET EnumD}

InitMembers ==
    /\ store \in MemberStores
    /\ call = IdleCall
    /\ wasmInstance = TRUE
    /\ moduleList = updateModuleList
    /\ main = IdleMain
    /\ tasks = <<>>
    /\ paths = <<>>
    /\ processedFqns = {}
    /\ cacheFile = [kind |-> "absent"]
    /\ storeOps = 0
    /\ rt = IdleRt

NextMembers ==
    \/ \E declIndex \in EnumH : ListByGetDeclData(declIndex)
    \/ \E i \in 1 .. Len(moduleList) : ListByGetModuleData(i)
    \/ ListByGetAllDeclarations

SpecMembers == InitMembers /\ [][NextMembers]_vars

----------------------------------------------------------------------------
(* Properties of alias resolution and of the assembled records.            *)

\* the non-alias handle that the chain of target links starting at h reaches
\* within fuel hops, NotFound when it reaches none
RECURSIVE ChainEnd(_, _)
ChainEnd(h, fuel) ==
    IF store.cat[h] # CAT_alias THEN h
    ELSE IF fuel = 0 \/ store.aliasee[h] = NotFound THEN NotFound
    ELSE ChainEnd(store.aliasee[h], fuel - 1)

ChainTarget(h) == ChainEnd(h, Cardinality(DOMAIN store.cat))

GetDeclDataFns == {FnGetDeclData, FnDocParserGetDeclData}
CurrentFns == {FnGetDeclData, FnProcessDeclarations}

\* the handle a produced record or entry names as its resolved handle
ResolvedOf(fn, r) == IF fn \in GetDeclDataFns THEN r.index ELSE r.targetIndex

\* C3: the alias-following loop of getDeclData and of processDeclarations
\* terminates for every handle and every store content: a call that has
\* entered the loop always comes out of it with a result.
C3_AliasLoopTerminates ==
    (call.pc = "loop" /\ call.fn \in CurrentFns) ~> (call.pc = "done")

\* C7: for an alias handle A whose chain reaches the non-alias handle T,
\* getDeclData(A) returns category = category of T, fqn = FQN of A,
\* targetFqn = FQN of T, index = T and isAlias = TRUE.
C7_AliasRecord ==
    (/\ call.pc = "done"
     /\ call.fn \in GetDeclDataFns
     /\ call.pass = 1
     /\ store.cat[call.originalIndex] = CAT_alias
     /\ ChainTarget(call.originalIndex) # NotFound)
    => LET A == call.originalIndex
           T == ChainTarget(A)
           r == call.out[1]
       IN  /\ r.category = store.cat[T]
           /\ r.fqn = store.fqn[A]
           /\ r.targetFqn = store.fqn[T]
           /\ r.index = T
           /\ r.originalIndex = A
           /\ r.isAlias = TRUE

\* a two-hop alias chain has been resolved by getDeclData
C7_Witness ==
    /\ call.pc = "done"
    /\ call.fn = FnGetDeclData
    /\ call.pass = 1
    /\ store.cat[call.originalIndex] = CAT_alias
    /\ ChainTarget(call.originalIndex) # NotFound
    /\ store.aliasee[call.originalIndex] # ChainTarget(call.originalIndex)
    /\ call.out[1].category = CAT_container

\* C8: in every record of getDeclData and every entry of processDeclarations
\* the category is the category of the record's resolved handle; it is the
\* alias category only when the chain reaches no non-alias handle.
C8_CategoryOfTarget ==
    call.pc = "done" =>
        \A i \in 1 .. Len(call.out) :
            LET r == call.out[i]
            IN  /\ r.category = store.cat[ResolvedOf(call.fn, r)]
                /\ r.category = CAT_alias =>
                        ChainTarget(r.originalIndex) = NotFound

\* processDeclarations has produced an entry for an alias of an alias
C8_Witness ==
    /\ call.pc = "done"
    /\ call.fn = FnProcessDeclarations
    /\ call.pass = 1
    /\ \E i \in 1 .. Len(call.out) :
            LET r == call.out[i]
            IN  /\ store.cat[r.originalIndex] = CAT_alias
                /\ store.aliasee[r.originalIndex] # NotFound
                /\ store.cat[store.aliasee[r.originalIndex]] = CAT_alias
                /\ r.category # CAT_alias

\* C9: in every record of getDeclData, fqn is the FQN of the requested handle
\* and targetFqn the FQN of the resolved handle, and when isAlias is FALSE
\* fqn = targetFqn and index = originalIndex.
C9_FqnOfOriginal ==
    (call.pc = "done" /\ call.fn \in GetDeclDataFns) =>
        LET r == call.out[1]
        IN  /\ r.originalIndex = call.originalIndex
            /\ r.fqn = store.fqn[call.originalIndex]
            /\ r.targetFqn = store.fqn[r.index]
            /\ ~r.isAlias => (r.fqn = r.targetFqn /\ r.index = r.originalIndex)
            /\ r.fqn # r.targetFqn => r.isAlias

\* getDeclData has returned a record whose fqn and targetFqn differ
C9_Witness ==
    /\ call.pc = "done"
    /\ call.fn \in GetDeclDataFns
    /\ call.out[1].fqn # call.out[1].targetFqn
    /\ call.out[1].isAlias

\* C10: resolving a non-alias handle returns that handle, and resolving the
\* handles a resolution returned returns them unchanged.
C10_Idempotent ==
    (call.pc = "done" /\ call.fn \in CurrentFns) =>
        /\ Len(call.out) = Len(call.asked)
        /\ \A i \in 1 .. Len(call.out) :
              /\ (call.pass = 1 /\ store.cat[call.asked[i]] # CAT_alias)
                    => ResolvedOf(call.fn, call.out[i]) = call.asked[i]
              /\ call.pass = 2
                    => ResolvedOf(call.fn, call.out[i]) = call.first[i]

\* a second resolution has been run on a handle that the first resolution
\* reached through an alias of an alias
C10_Witness ==
    /\ call.pc = "done"
    /\ call.fn \in CurrentFns
    /\ call.pass = 2
    /\ store.cat[call.asked[1]] = CAT_alias
    /\ store.aliasee[call.asked[1]] # NotFound
    /\ store.cat[store.aliasee[call.asked[1]]] = CAT_alias
    /\ call.first[1] # call.asked[1]
    /\ call.first[1] # store.aliasee[call.asked[1]]

\* C4: for every route sequence the enumerator can produce,
\* restoreBigInts(JSON.parse(JSON.stringify(makeSerializable(routes)))) is
\* structurally equal to routes, every value keeping its type and its value.
C4_RoundTrip ==
    rt.pc \in {"restored", "threw"} =>
        (rt.pc = "restored" /\ rt.restored = rt.routes)


----------------------------------------------------------------------------
(* Properties of the enumeration.                                          *)

Elements(seq) == {seq[i] : i \in 1 .. Len(seq)}
RouteIndices == 1 .. Len(paths)

\* the routes pushed for declaration d
RoutesOfDecl(d) == {i \in RouteIndices : paths[i].declData.originalIndex = d}

NoFailure == store.fault = {} /\ store.faultShort = {} /\ store.miss = {}

\* a fresh enumeration has returned
FreshReturn == main.pc = "returned" /\ ~main.cacheHit

\* C1: in every state of every interleaving of the module and member tasks,
\* no two routes pushed so far carry the same FQN or the same (module, path)
\* key, so the returned sequence never contains such a pair.
C1_UniqueFqn ==
    \A i, j \in RouteIndices :
        i # j => /\ paths[i].declData.fqn # paths[j].declData.fqn
                 /\ <<paths[i].module, paths[i].path>> # <<paths[j].module, paths[j].path>>

\* an enumeration has returned in which an alias of a container or of a
\* module root has its route and so has a member of that target: the member
\* is reachable through the alias and through the target itself
C1_Witness ==
    /\ FreshReturn
    /\ \E i, k \in RouteIndices :
            /\ i # k
            /\ paths[i].declData.isAlias
            /\ paths[i].declData.category \in {CAT_container, CAT_namespace}
            /\ paths[k].declData.originalIndex \in Elements(paths[i].declData.members)

\* the declarations reachable from the handles in S through the member lists
\* of container, namespace and type declarations
RECURSIVE MemberClosure(_)
MemberClosure(S) ==
    LET more == UNION {Elements(store.members[d]) :
                        d \in {e \in S : store.cat[e] \in
                                    {CAT_container, CAT_namespace, CAT_type}}}
    IN  IF more \subseteq S THEN S ELSE MemberClosure(S \cup more)

ModuleRoots == {store.modules[i].root : i \in 1 .. Len(store.modules)} \ {NotFound}

ReachableDecls ==
    MemberClosure(UNION {Elements(store.members[root]) : root \in ModuleRoots})

RECURSIVE ChainStop(_, _)
ChainStop(h, fuel) ==
    IF store.cat[h] # CAT_alias \/ fuel = 0 THEN h
    ELSE IF store.aliasee[h] = NotFound \/ store.aliasee[h] = h THEN h
    ELSE ChainStop(store.aliasee[h], fuel - 1)

StopOf(h) == ChainStop(h, Cardinality(DOMAIN store.cat))

\* assembling the record of declaration d raises an error
AssemblyFails(d) == StopOf(d) \in store.fault

\* listing the members ms raises an error
ListingFails(ms) == \E m \in Elements(ms) : StopOf(m) \in store.faultShort

\* processing the module with this root raises an error
ModuleFails(root) == ListingFails(store.members[root]) \/ root \in store.fault

\* the declarations reached through modules and declarations that do not fail
RECURSIVE SurvivorClosure(_)
SurvivorClosure(S) ==
    LET open == {d \in S :
                    /\ ~AssemblyFails(d)
                    /\ store.cat[StopOf(d)] \in {CAT_container, CAT_namespace, CAT_type}
                    /\ ~ListingFails(store.members[StopOf(d)])}
        more == UNION {Elements(store.members[StopOf(d)]) : d \in open}
    IN  IF more \subseteq S THEN S ELSE SurvivorClosure(S \cup more)

Survivors ==
    SurvivorClosure(UNION {Elements(store.members[root]) :
                            root \in {r \in ModuleRoots : ~ModuleFails(r)}})

\* C6: a failing module or declaration does not stop the enumeration: when
\* the call has returned, every declaration that is reached through modules
\* and declarations that do not fail, and whose own assembly does not fail,
\* has its route, and no task is left unfinished.
C6_FailureIsolated ==
    FreshReturn =>
        /\ \A d \in Survivors : ~AssemblyFails(d) => Cardinality(RoutesOfDecl(d)) = 1
        /\ \A t \in 1 .. Len(tasks) :
                tasks[t].pc # "done" => tasks[t].pc = "awaitAll" /\ ~tasks[t].failed

\* an enumeration has returned in which one task failed and a declaration
\* started after the failing one's FQN was marked has its route
C6_Witness ==
    /\ FreshReturn
    /\ \E t \in 1 .. Len(tasks) : tasks[t].failed
    /\ \E d \in Survivors : ~AssemblyFails(d) /\ RoutesOfDecl(d) # {}
    /\ \E d \in Survivors : AssemblyFails(d)


----------------------------------------------------------------------------
(* Properties of the cache.                                                *)

\* the cache file exists, can be read and holds a JSON array
CacheFileValid ==
    /\ cacheFile.kind = "file"
    /\ cacheFile.readable
    /\ cacheFile.syntax
    /\ cacheFile.doc.j = "array"

\* C5: a call with forceRegenerate = false that finds a valid cache file
\* returns at once, with the routes held in the file, and has performed no
\* store operation: the store is not initialised, no module is listed and
\* no record is assembled.
C5_CacheHitNoStore ==
    [][(main.pc = "start" /\ ~main.forceRegenerate /\ CacheFileValid)
        => /\ main'.pc = "returned"
           /\ storeOps' = 0
           /\ wasmInstance' = wasmInstance
           /\ moduleList' = moduleList
           /\ tasks' = <<>>]_vars


----------------------------------------------------------------------------
(* Properties of alias resolution that fails.                              *)

\* the chain of target links from h ends in a link to the not-found handle
\* or in a link of a handle to itself
Broken(h) ==
    LET last == StopOf(h)
    IN  /\ store.cat[last] = CAT_alias
        /\ store.aliasee[last] = NotFound \/ store.aliasee[last] = last

\* C11: when the chain of a requested handle ends in a link to the
\* not-found handle or in a link of a handle to itself, getDeclData and
\* processDeclarations (both revisions of the latter) still produce the
\* record of that handle, and its target is the last handle of the chain,
\* the one holding the broken link.
C11_LastValidOnFailure ==
    (/\ call.pc = "done"
     /\ call.pass = 1
     /\ call.fn \in {FnGetDeclData, FnProcessDeclarations,
                     FnDocParserProcessDeclarations})
    => \A i \in 1 .. Len(call.asked) :
          Broken(call.asked[i]) =>
              \E k \in 1 .. Len(call.out) :
                  /\ call.out[k].originalIndex = call.asked[i]
                  /\ ResolvedOf(call.fn, call.out[k]) = StopOf(call.asked[i])

\* C12: getDeclData (both revisions) resolves a handle to the first
\* non-alias handle of its chain, and to the requested handle itself when
\* the chain ends in a link to the not-found handle or in a self link,
\* after any number of hops.
C12_OriginalOnFailure ==
    (call.pc = "done" /\ call.pass = 1 /\ call.fn \in GetDeclDataFns)
    => LET h == call.asked[1]
           r == call.out[1]
       IN  /\ ChainTarget(h) # NotFound => r.index = ChainTarget(h)
           /\ Broken(h) => r.index = h


----------------------------------------------------------------------------
(* Properties of the bigint tag.                                           *)

\* written holds, at every position of data, what the tagging contract asks
\* for: a bigint as the prefix followed by its decimal digits, and no other
\* value as a string that starts with the prefix
RECURSIVE TaggedAs(_, _)
TaggedAs(data, written) ==
    CASE data.t = "bigint" ->
            written = JsString(BigIntPrefix \o BigIntToString(data.big))
      [] data.t = "string" ->
            written = data /\ ~startsWith(written.str, BigIntPrefix)
      [] data.t = "array" ->
            /\ written.t = "array"
            /\ Len(written.items) = Len(data.items)
            /\ \A i \in 1 .. Len(data.items) : TaggedAs(data.items[i], written.items[i])
      [] data.t = "object" ->
            /\ written.t = "object"
            /\ Len(written.props) = Len(data.props)
            /\ \A i \in 1 .. Len(data.props) :
                    /\ written.props[i].key = data.props[i].key
                    /\ TaggedAs(data.props[i].val, written.props[i].val)
      [] OTHER -> written = data

\* restored holds every bigint of data, at its position and with its value
RECURSIVE BigIntsKept(_, _)
BigIntsKept(data, restored) ==
    CASE data.t = "bigint" -> restored = data
      [] data.t = "array" ->
            /\ restored.t = "array"
            /\ Len(restored.items) = Len(data.items)
            /\ \A i \in 1 .. Len(data.items) :
                    BigIntsKept(data.items[i], restored.items[i])
      [] data.t = "object" ->
            /\ restored.t = "object"
            /\ Len(restored.props) = Len(data.props)
            /\ \A i \in 1 .. Len(data.props) :
                    BigIntsKept(data.props[i].val, restored.props[i].val)
      [] OTHER -> TRUE

\* C13: in the document read from the cache file every bigint of the routes
\* is the string "__bigint__:" followed by its decimal digits and no other
\* value is a string with that prefix, and reading the file gives back
\* every bigint with its exact value.
C13_BigIntTagged ==
    rt.pc \in {"parsed", "restored", "threw"} =>
        /\ TaggedAs(rt.routes, rt.parsed)
        /\ rt.pc # "parsed" =>
                (rt.pc = "restored" /\ BigIntsKept(rt.routes, rt.restored))


----------------------------------------------------------------------------
(* Properties of cache misses, forced regeneration and the cache write.    *)

\* file can be read and holds the serialization of a sequence of routes: a
\* JSON array of objects with the properties params and props
HoldsRoutes(file) ==
    /\ file.kind = "file"
    /\ file.readable
    /\ file.syntax
    /\ file.doc.j = "array"
    /\ \A i \in 1 .. Len(file.doc.items) :
            /\ file.doc.items[i].j = "object"
            /\ [k \in 1 .. Len(file.doc.items[i].props) |->
                    file.doc.items[i].props[k].key] = <<"params", "props">>

CacheFileHoldsRoutes == HoldsRoutes(cacheFile)

\* C14: a call with forceRegenerate = false that finds the cache file
\* missing, unreadable or holding anything but a serialized route sequence
\* goes on to enumerate, and what an enumeration returns is the route
\* sequence it has just built.
C14_CorruptCacheIsMiss ==
    [][/\ (main.pc = "start" /\ ~main.forceRegenerate /\ ~CacheFileHoldsRoutes)
            => main'.pc = "getAllModules"
       /\ main.pc = "writeFile"
            => (main'.pc = "returned" /\ main'.result = RoutesToJs(paths))]_vars


\* the cache file a successful write of the routes leaves behind
WrittenFile(routes) ==
    [kind |-> "file", readable |-> TRUE, syntax |-> TRUE,
     doc |-> JSON_stringify(makeSerializable(RoutesToJs(routes)))]

\* some task of the enumeration has not finished
TaskPending == \E t \in 1 .. Len(tasks) : ~TaskEnded(t)

C16_WriteFailureNotFatal ==
    /\ main.pc # "threw"
    /\ FreshReturn =>
            /\ main.result = RoutesToJs(paths)
            /\ ~main.written => cacheFile = main.atCall

\* an enumeration has returned its routes after a failed write over the
\* routes of an earlier build
C16_Witness ==
    /\ FreshReturn
    /\ ~main.written
    /\ paths # <<>>
    /\ main.result = RoutesToJs(paths)
    /\ HoldsRoutes(main.atCall)

\* C17: while the call runs and as long as a module or member task has not
\* finished, the cache file is as the call found it; the content a write
\* leaves behind is the serialization of the whole returned sequence.
C17_NoPartialPersist ==
    /\ main.pc \in {"start", "getAllModules", "awaitModules", "writeFile"}
            => cacheFile = main.atCall
    /\ TaskPending => cacheFile = main.atCall
    /\ (FreshReturn /\ main.written) =>
            /\ cacheFile = WrittenFile(paths)
            /\ main.result = RoutesToJs(paths)

\* routes have been pushed, a task is still pending and the cache file of
\* the earlier build is untouched
C17_Witness ==
    /\ main.pc = "awaitModules"
    /\ TaskPending
    /\ paths # <<>>
    /\ HoldsRoutes(cacheFile)
    /\ cacheFile = main.atCall


----------------------------------------------------------------------------
(* Properties of module discovery and of the initialisation.               *)

\* the index at which the probing has to stop: the first index whose name is
\* empty, or the safety bound
StopIndex ==
    LET empty == {i \in 0 .. Len(store.modules) : Len(module_name(i)) = 0}
    IN  IF empty = {} THEN MAX_MODULES_CHECK
        ELSE CHOOSE i \in empty : \A k \in empty : i <= k

\* the indices of the module table below the stop index
ListedBelowStop ==
    {i \in 0 .. (Len(store.modules) - 1) : i < StopIndex}

\* e is the entry of a module that the store reports below the stop index
DiscoveredBelowStop(e) ==
    \/ \E i \in ListedBelowStop :
            e = [name |-> module_name(i), rootDeclIndex |-> find_module_root(i)]
    \/ /\ StopIndex > Len(store.modules)
       /\ e = [name |-> store.beyond.name, rootDeclIndex |-> store.beyond.root]

\* C18: updateModuleList calls module_name for the indices 0, 1, 2, ... in
\* this order and at most 10,000 times; it never goes past the first index
\* whose name is empty, so that no module at a later index is in the list;
\* it ends at that index or at the bound, where it only warns; and it ends.
C18_DiscoveryTerminates ==
    /\ [](call.fn \in ModuleListFns =>
            /\ call.probes <= MAX_MODULES_CHECK
            /\ call.probes > 0 => call.last = call.probes - 1
            /\ call.i <= StopIndex
            /\ \A k \in 1 .. Len(moduleList) : DiscoveredBelowStop(moduleList[k])
            /\ call.pc = "done" =>
                    /\ call.i = StopIndex
                    /\ call.warned <=> (call.i = MAX_MODULES_CHECK))
    /\ <>(call.pc = "done")

\* module discovery has ended at the safety bound with a module in its list
C18_Witness ==
    /\ call.pc = "done"
    /\ call.i = MAX_MODULES_CHECK
    /\ call.probes = MAX_MODULES_CHECK
    /\ call.warned
    /\ moduleList # <<>>

\* how often the store reports the entry e below the stop index
DiscoveredCount(e) ==
    Cardinality({i \in ListedBelowStop :
                    e = [name |-> module_name(i),
                         rootDeclIndex |-> find_module_root(i)]})
        + (IF /\ StopIndex > Len(store.modules)
              /\ e = [name |-> store.beyond.name, rootDeclIndex |-> store.beyond.root]
           THEN StopIndex - Len(store.modules)
           ELSE 0)

ListedCount(e) == Cardinality({k \in 1 .. Len(moduleList) : moduleList[k] = e})

\* every entry a store of the family can give rise to
PossibleEntries ==
    {[name |-> n, rootDeclIndex |-> r] : n \in ModuleNames, r \in ModuleRootHandles}

\* C19: no entry of the module list has the not-found sentinel as its root
\* handle, and when discovery has ended the list holds exactly the modules
\* reported below the stop index whose root was found, each as often as it
\* was reported: a module without a root is left out and the probing goes on
\* to the stop index.
C19_UnresolvedRootsDropped ==
    call.fn \in ModuleListFns =>
        /\ \A k \in 1 .. Len(moduleList) : moduleList[k].rootDeclIndex # NotFound
        /\ call.pc = "done" =>
                /\ call.i = StopIndex
                /\ \A k \in 1 .. Len(moduleList) : moduleList[k] \in PossibleEntries
                /\ \A e \in PossibleEntries :
                        ListedCount(e) = IF e.rootDeclIndex = NotFound THEN 0
                                         ELSE DiscoveredCount(e)

\* discovery has ended, a module without a root was left out and a module
\* at a later index is in the list
C19_Witness ==
    /\ call.pc = "done"
    /\ \E i, j \in ListedBelowStop :
            /\ i < j
            /\ find_module_root(i) = NotFound
            /\ find_module_root(j) # NotFound
            /\ ListedCount([name |-> module_name(j),
                            rootDeclIndex |-> find_module_root(j)]) > 0

\* the callers of initWasm that have instantiated the store and built the
\* module list
Initialisers ==
    {c \in 1 .. Len(tasks) : tasks[c].kind = "initWasm" /\ tasks[c].ran}

\* C20: whatever the interleaving of the callers of initWasm, at most one of
\* them instantiates the store and builds the module list.
C20_InitOnce == Cardinality(Initialisers) <= 1


----------------------------------------------------------------------------
(* Properties of the assembled record.                                     *)

\* the records of the call of getDeclData that has returned
ReturnedRecords == IF call.fn \in GetDeclDataFns /\ call.pc = "done"
                   THEN Elements(call.out) ELSE {}

\* the diagnostics of the call that has returned
ReturnedWarnings ==
    IF call.fn = FnGetDeclData THEN getDeclData_warnings(call.l)
    ELSE docParser_getDeclData_warnings(call.l)

FunctionCategories == {CAT_function, CAT_type_function}
ContainerCategories == {CAT_container, CAT_type, CAT_namespace}
\* the categories the switch of getDeclData has a case for
RecognisedCategories ==
    FunctionCategories \cup ContainerCategories
        \cup {CAT_error_set, CAT_global_variable, CAT_global_const, CAT_primitive}

\* C21: in the record getDeclData returns, whatever the category of the
\* declaration, params, fields, members and errorSetNodes each hold an
\* array, never undefined.
C21_ArraysDefined ==
    \A r \in ReturnedRecords : ArrayFields \subseteq r.defined

\* r has none of the properties of a function
NoFunctionFields(r) == r.protoHtml = <<>> /\ r.params = <<>> /\ r.errorSetBaseDecl = <<>>

\* r has none of the properties of a container
NoContainerFields(r) == r.fields = <<>> /\ r.members = <<>>

\* C22: the record has the prototype, the parameters, the doctest and the
\* error set of its function only when the resolved category is function or
\* type function; the fields, the members and the doctest only when it is
\* container, type or namespace; the error nodes of the declaration only
\* when it is error set; and for any other category none of these.
C22_FieldsByCategory ==
    \A r \in ReturnedRecords :
        LET t == r.index
        IN  IF r.category \in FunctionCategories
            THEN /\ r.protoHtml = <<store.proto[t]>>
                 /\ r.params = store.params[t]
                 /\ r.doctestHtml = <<store.doctest[t]>>
                 /\ IF store.fnErrorSet[t] = BigZero
                    THEN r.errorSetNodes = <<>> /\ r.errorSetBaseDecl = <<>>
                    ELSE /\ r.errorSetBaseDecl = <<store.fnErrorSetDecl[t]>>
                         /\ r.errorSetNodes = store.errorNodes[store.fnErrorSetDecl[t]]
                 /\ NoContainerFields(r)
            ELSE IF r.category \in ContainerCategories
            THEN /\ r.fields = store.fields[t]
                 /\ r.members = store.members[t]
                 /\ r.doctestHtml = <<store.doctest[t]>>
                 /\ NoFunctionFields(r)
                 /\ r.errorSetNodes = <<>>
            ELSE IF r.category = CAT_error_set
            THEN /\ r.errorSetNodes = store.errorNodes[t]
                 /\ NoFunctionFields(r)
                 /\ NoContainerFields(r)
                 /\ r.doctestHtml = <<>>
            ELSE /\ NoFunctionFields(r)
                 /\ NoContainerFields(r)
                 /\ r.doctestHtml = <<>>
                 /\ r.errorSetNodes = <<>>

\* getDeclData was asked for an alias of a declaration of the category
\* CAT_type_type and returned a record without category-specific fields
C22_Witness ==
    \E r \in ReturnedRecords :
        /\ r.isAlias
        /\ r.category = CAT_type_type
        /\ r.index # r.originalIndex
        /\ NoFunctionFields(r)
        /\ NoContainerFields(r)
        /\ r.doctestHtml = <<>>

\* C23: for a declaration whose category the switch has no case for,
\* getDeclData returns a record with the base fields only and reports the
\* unknown category by a diagnostic.
C23_UnknownCategoryReported ==
    \A r \in ReturnedRecords :
        (call.fn = FnGetDeclData /\ r.category \notin RecognisedCategories) =>
            /\ NoFunctionFields(r)
            /\ NoContainerFields(r)
            /\ r.doctestHtml = <<>>
            /\ r.errorSetNodes = <<>>
            /\ WarnUnknownCategory \in Elements(ReturnedWarnings)


----------------------------------------------------------------------------
(* Properties of the routes.                                               *)

\* str with every character from replaced by to
ReplaceChar(str, from, to) ==
    [i \in 1 .. Len(str) |-> IF str[i] = from THEN to ELSE str[i]]

HasChar(str, c) == \E i \in 1 .. Len(str) : str[i] = c

\* the roots whose only member is a function
SingleFunctionRoots ==
    {r \in ModuleRoots :
        /\ Len(store.members[r]) = 1
        /\ store.cat[store.members[r][1]] = CAT_function}

----------------------------------------------------------------------------
(* Properties of the visibility of members.                                *)

\* the members of h that are not private, in the order of the store
PublicMembers(h) ==
    LET Public(m) == m \notin store.private
    IN  SelectSeq(store.members[h], Public)

\* C25: the members in the record of getDeclData are the public members of
\* the resolved declaration, and the members the enumerator fetches for a
\* module root, by its call of getModuleData, are all the members of the
\* root, private ones included.
C25_MemberVisibility ==
    call.pc = "done" =>
        /\ call.fn = FnGetDeclData => call.out = PublicMembers(call.asked)
        /\ call.fn = FnGetModuleData => call.out = store.members[call.asked]

----------------------------------------------------------------------------
(* Properties of the visited-FQN set.                                      *)

DeclTasks == {t \in 1 .. Len(tasks) : tasks[t].kind = "decl"}
ModuleTasks == {t \in 1 .. Len(tasks) : tasks[t].kind = "module"}

\* C26: under every interleaving of the tasks of one enumeration, getDeclData
\* is called for an FQN only by a call of processDeclarationRecursively that
\* found the FQN unvisited and marked it: no two of these calls have the same
\* FQN, each of their FQNs is in the visited set, and the store calls made
\* are at most the one of getAllModules, one per module and two per such call
\* (getDeclData and the listing of its members), so a call that finds its
\* FQN visited makes no store call and starts no descent.
C26_VisitedCheckFirst ==
    /\ \A t, u \in DeclTasks : t # u => tasks[t].key # tasks[u].key
    /\ \A t \in DeclTasks : tasks[t].key \in processedFqns
    /\ Cardinality(DeclTasks) <= Cardinality(processedFqns)
    /\ storeOps <= 1 + Cardinality(ModuleTasks) + 2 * Cardinality(DeclTasks)

\* an enumeration has returned in which two declarations with routes both
\* descended into their members and have a member in common, whose FQN was
\* therefore handed to processDeclarationRecursively twice
C26_Witness ==
    /\ FreshReturn
    /\ \E t, u \in DeclTasks, i, k \in RouteIndices :
            /\ t # u
            /\ tasks[t].pc = "awaitAll"
            /\ tasks[u].pc = "awaitAll"
            /\ paths[i].declData.fqn = tasks[t].key
            /\ paths[k].declData.fqn = tasks[u].key
            /\ \E m \in 1 .. Len(paths[i].declData.members),
                  n \in 1 .. Len(paths[k].declData.members) :
                    /\ paths[i].declData.members[m] = paths[k].declData.members[n]
                    /\ \E v \in DeclTasks :
                            tasks[v].key = store.fqn[paths[i].declData.members[m]]

----------------------------------------------------------------------------
(* Termination of the enumeration.                                         *)

\* every alias chain of the store ends at a declaration
AliasChainsResolve ==
    \A h \in DOMAIN store.cat :
        ChainTarget(h) # NotFound

\* C27: on every store in which each alias chain ends at a declaration, a
\* call of generateDeclarationPaths that has started returns, whatever the
\* member graph is: also when a member aliases the container or the module
\* root it is a member of.
C27_EnumerationTerminates ==
    AliasChainsResolve => ((main.pc = "start") ~> (main.pc = "returned"))

\* an enumeration has returned on a store whose member graph has a cycle: a
\* member aliases the container or module root it is declared in, has its
\* route, and its call descended into the members of that container again
C27_Witness ==
    /\ FreshReturn
    /\ AliasChainsResolve
    /\ \E h \in DOMAIN store.cat, t \in DeclTasks :
            /\ store.cat[h] = CAT_alias
            /\ \E m \in 1 .. Len(store.members[store.aliasee[h]]) :
                    store.members[store.aliasee[h]][m] = h
            /\ tasks[t].key = store.fqn[h]
            /\ tasks[t].pc = "awaitAll"

----------------------------------------------------------------------------
(* Properties of the module of a route.                                    *)

\* C28: the module of every route pushed by generateDeclarationPaths is the
\* name of an entry of the module list, whatever the store holds, also for
\* the declarations reached through an alias into another module.
C28_RouteModuleListed ==
    \A i \in RouteIndices :
        \E k \in 1 .. Len(moduleList) : moduleList[k].name = paths[i].module

----------------------------------------------------------------------------
(* The page path of a route and the link getDeclPath builds.  The FQNs are *)
(* the strings of at most MaxFqnLen characters over two letters and the    *)
(* dot; call.asked is the FQN, paths the route pushed for it, call.out the *)
(* link.                                                                   *)

MaxFqnLen == 4

FqnChars == {"a", "f", Dot}
Fqns == UNION {[1 .. n -> FqnChars] : n \in 0 .. MaxFqnLen}

ModulesPrefix == <<"/", "m", "o", "d", "u", "l", "e", "s", "/">>

\* part_004 lines 7-15: "#" for an empty FQN; otherwise the leading and the
\* trailing dots are removed, every other dot becomes a slash, and the
\* result follows "/modules/"
getDeclPath(fqn) ==
    IF fqn = EmptyString THEN <<"#">>
    ELSE LET kept == {i \in 1 .. Len(fqn) : fqn[i] # Dot}
             stripped ==
                IF kept = {} THEN EmptyString
                ELSE SubSeq(fqn, CHOOSE i \in kept : \A k \in kept : i <= k,
                                 CHOOSE i \in kept : \A k \in kept : k <= i)
             cleanedFqn == [i \in 1 .. Len(stripped) |->
                                IF stripped[i] = Dot THEN "/" ELSE stripped[i]]
         IN  ModulesPrefix \o cleanedFqn

\* part_001 lines 17-32 (pages/modules/[module]/[...path].astro): the path
\* of the page that getStaticPaths makes of a route
PagePath(route) == ModulesPrefix \o route.module \o <<"/">> \o route.path

FnGetDeclPath == "getDeclPath"

InitPath ==
    /\ store = MkAssembleStore(CAT_function, NotFound, BigZero)
    /\ \E fqn \in Fqns : call = [IdleCall EXCEPT !.fn = FnGetDeclPath,
                                                  !.pc = "called", !.asked = fqn]
    /\ wasmInstance = TRUE
    /\ moduleList = <<>>
    /\ main = IdleMain
    /\ tasks = <<>>
    /\ paths = <<>>
    /\ processedFqns = {}
    /\ cacheFile = [kind |-> "absent"]
    /\ storeOps = 0
    /\ rt = IdleRt

\* part_004 lines 181-195: the enumerator pushes the route of the FQN, or
\* none for an FQN of one component
PathPush ==
    /\ call.fn = FnGetDeclPath
    /\ call.pc = "called"
    /\ LET pushed == processDeclarationRecursively_route(call.asked,
                                                         [fqn |-> call.asked])
       IN  /\ paths' = IF pushed.skip THEN paths ELSE Append(paths, pushed.route)
           /\ call' = [call EXCEPT !.pc = IF pushed.skip THEN "skipped" ELSE "pushed"]
    /\ UNCHANGED <<store, wasmInstance, moduleList, main, tasks, processedFqns,
                   cacheFile, storeOps, rt>>

\* part_001 line 186: a page builds the link to the member
PathLink ==
    /\ call.fn = FnGetDeclPath
    /\ call.pc = "pushed"
    /\ call' = [call EXCEPT !.pc = "done", !.out = getDeclPath(call.asked)]
    /\ UNCHANGED <<store, wasmInstance, moduleList, main, tasks, paths,
                   processedFqns, cacheFile, storeOps, rt>>

NextPath ==
    \/ PathPush
    \/ PathLink

SpecPath == InitPath /\ [][NextPath]_vars

\* C29: for every FQN that has a route, also one with leading, trailing or
\* consecutive dots, the path of the page of the route is the link that
\* getDeclPath builds from the FQN.
C29_LinkIsPagePath ==
    (call.fn = FnGetDeclPath /\ call.pc = "done") => call.out = PagePath(paths[1])

----------------------------------------------------------------------------
(* Properties of an enumeration in which an assembly fails.                *)

\* the FQNs whose call of getDeclData failed in the running enumeration
FailedFqns == {tasks[t].key : t \in {u \in DeclTasks : tasks[u].failed}}

\* C30: an FQN whose assembly failed is in the visited set and has no route,
\* also when it is reached again; the write at the end of that enumeration,
\* when it succeeds, leaves the routes that were built in the cache file;
\* and a later call with forceRegenerate = false that finds the file such an
\* enumeration wrote returns the routes that enumeration returned, without
\* a store operation.
C30_PartialResultCached ==
    /\ \A fqn \in FailedFqns :
            /\ fqn \in processedFqns
            /\ \A i \in RouteIndices : paths[i].declData.fqn # fqn
    /\ (FreshReturn /\ main.written) => cacheFile = WrittenFile(paths)
    /\ (/\ main.pc = "returned"
        /\ ~main.forceRegenerate
        /\ main.prev.fresh
        /\ main.prev.written
        /\ main.atCall.kind = "file")
            => /\ main.cacheHit
               /\ storeOps = 0
               /\ main.result = main.prev.result

====
